---- MODULE Spec2Model ----
(***************************************************************************)
(* Change-application subsystem of jdk-upgrader:                           *)
(*   src/src/writers/change_writer.py  (ChangeWriter)                      *)
(*   src/src/utils/code_matcher.py     (CodeMatcher)                       *)
(*                                                                         *)
(* Text is a sequence of one-character strings.  A file on disk is one     *)
(* such sequence; the writer splits it into lines that keep their line     *)
(* ending, exactly as content.splitlines(keepends=True) does.              *)
(***************************************************************************)
EXTENDS Integers, Sequences, FiniteSets, TLC

VARIABLES
    disk,            \* file_path -> content of the file on disk
    dry_run,         \* process_responses argument
    auto_approve,    \* process_responses argument
    pc,              \* position of process_responses
    n_resp,          \* responses of the list consumed so far
    file_path,       \* file_path of the response being processed
    all_changes,     \* sorted changes of the response being processed
    ci,              \* 1-based index into all_changes of the next change
    applied_count,   \* applied_count of the current per-file pass
    reads,           \* open(file_path, 'r') calls of the current pass
    writes,          \* open(file_path, 'w') calls of the current pass
    history,         \* one record per change the loops reached, in order
    file_lines,      \* find_content_match argument
    target_content,  \* find_content_match argument
    match_result,    \* what find_content_match returned
    extract_content, \* extract_blocks argument content
    keywords,        \* extract_blocks argument keywords
    raw_blocks,      \* (start_line, end_line, keyword) per keyword match
    merged_blocks,   \* what _merge_blocks returned
    code_blocks,     \* what extract_blocks returned
    indent_call,     \* the arguments of a call of preserve_indentation
    result_lines     \* what preserve_indentation returned

\* the state of CodeBlockExtractor (src/src/utils/code_extractor.py)
extractor_vars == <<extract_content, keywords, raw_blocks, merged_blocks,
                    code_blocks>>

\* the state of a call of CodeMatcher.preserve_indentation
indent_vars == <<indent_call, result_lines>>

vars == <<disk, dry_run, auto_approve, pc, n_resp, file_path, all_changes,
          ci, applied_count, reads, writes, history, file_lines,
          target_content, match_result, extractor_vars, indent_vars>>

----------------------------------------------------------------------------
(* Python str primitives used by the source, over sequences of characters. *)

NL == "\n"

\* the characters str.strip()/str.split()/\s treat as whitespace
Whitespace == {" ", "\t", "\n", "\r"}

Digits == {"0", "1", "2", "3", "4", "5", "6", "7", "8", "9"}

UpperCase == <<"A", "B", "C", "D", "E", "F", "G", "H", "I", "J", "K", "L", "M",
               "N", "O", "P", "Q", "R", "S", "T", "U", "V", "W", "X", "Y", "Z">>

LowerCase == <<"a", "b", "c", "d", "e", "f", "g", "h", "i", "j", "k", "l", "m",
               "n", "o", "p", "q", "r", "s", "t", "u", "v", "w", "x", "y", "z">>

Range(s) == {s[i] : i \in DOMAIN s}

\* the characters the regex class \w matches
WordChars == Range(UpperCase) \cup Range(LowerCase) \cup Digits \cup {"_"}

\* the regex class ["\']
Quotes == {"'", "\""}

Min(a, b) == IF a < b THEN a ELSE b

Max(a, b) == IF a > b THEN a ELSE b

\* Python's None where a text or a match result is expected
None == <<"None">>

\* Python's None where a list of lines is expected
NoLines == <<None>>

\* s[a:b] for 0 <= a, b (0-based, half-open), clipped like a Python slice
Slice(s, a, b) == SubSeq(s, a + 1, Min(b, Len(s)))

RECURSIVE lstrip_chars(_, _)
lstrip_chars(s, cs) ==
    IF s # <<>> /\ Head(s) \in cs THEN lstrip_chars(Tail(s), cs) ELSE s

RECURSIVE rstrip_chars(_, _)
rstrip_chars(s, cs) ==
    IF s # <<>> /\ s[Len(s)] \in cs
    THEN rstrip_chars(SubSeq(s, 1, Len(s) - 1), cs)
    ELSE s

lstrip(s) == lstrip_chars(s, Whitespace)

rstrip(s) == rstrip_chars(s, Whitespace)

strip(s) == lstrip(rstrip(s))

endswith_nl(s) == s # <<>> /\ s[Len(s)] = NL

startswith(s, p) == Len(p) <= Len(s) /\ SubSeq(s, 1, Len(p)) = p

\* str.splitlines(keepends); "\n" is the only line boundary of the alphabet
RECURSIVE splitlines_acc(_, _, _)
splitlines_acc(s, cur, keepends) ==
    IF s = <<>> THEN (IF cur = <<>> THEN <<>> ELSE <<cur>>)
    ELSE IF Head(s) = NL
         THEN <<IF keepends THEN Append(cur, NL) ELSE cur>>
              \o splitlines_acc(Tail(s), <<>>, keepends)
         ELSE splitlines_acc(Tail(s), Append(cur, Head(s)), keepends)

splitlines(s) == splitlines_acc(s, <<>>, FALSE)

splitlines_keepends(s) == splitlines_acc(s, <<>>, TRUE)

\* sep.join(parts)
RECURSIVE join(_, _)
join(sep, parts) ==
    IF parts = <<>> THEN <<>>
    ELSE IF Len(parts) = 1 THEN parts[1]
    ELSE parts[1] \o sep \o join(sep, Tail(parts))

\* ''.join(s.split()): s without any whitespace
remove_whitespace(s) == SelectSeq(s, LAMBDA c : c \notin Whitespace)

\* re.sub(r'\s+', ' ', s)
RECURSIVE collapse_whitespace(_)
collapse_whitespace(s) ==
    IF s = <<>> THEN <<>>
    ELSE IF Head(s) \in Whitespace
         THEN <<" ">> \o collapse_whitespace(lstrip(s))
         ELSE <<Head(s)>> \o collapse_whitespace(Tail(s))

\* str.lower() on ASCII
lower_char(c) ==
    IF \E i \in DOMAIN UpperCase : UpperCase[i] = c
    THEN LowerCase[CHOOSE i \in DOMAIN UpperCase : UpperCase[i] = c]
    ELSE c

lower(s) == [i \in DOMAIN s |-> lower_char(s[i])]

\* pattern in text (substring test)
contains(text, pattern) ==
    \E i \in 0..(Len(text) - Len(pattern)) :
        SubSeq(text, i + 1, i + Len(pattern)) = pattern

\* length of the longest prefix of s made of characters of cs
RECURSIVE span(_, _)
span(s, cs) ==
    IF s # <<>> /\ Head(s) \in cs THEN 1 + span(Tail(s), cs) ELSE 0

\* length of the longest prefix of s made of characters not in cs
RECURSIVE span_not(_, _)
span_not(s, cs) ==
    IF s # <<>> /\ Head(s) \notin cs THEN 1 + span_not(Tail(s), cs) ELSE 0

----------------------------------------------------------------------------
(* CodeMatcher (src/src/utils/code_matcher.py)                             *)

\* CodeMatcher._normalize_line
_normalize_line(line) == rstrip(rstrip_chars(line, {"\n", "\r"}))

\* a line comparison without whitespace tolerance
_single_line_match_verbatim(file_line, target_line) == file_line = target_line

\* CodeMatcher._single_line_match
_single_line_match(file_line, target_line) ==
    LET file_normalized   == remove_whitespace(file_line)
        target_normalized == remove_whitespace(target_line)
        file_clean        == collapse_whitespace(strip(file_line))
        target_clean      == collapse_whitespace(strip(target_line))
    IN  IF file_normalized = target_normalized THEN TRUE
        ELSE IF strip(file_line) = strip(target_line) THEN TRUE
        ELSE file_clean = target_clean

\* CodeMatcher._lines_match_at_position (start_idx is 0-based)
_lines_match_at_position(lines, target_lines, start_idx) ==
    \A i \in 0..(Len(target_lines) - 1) :
        /\ start_idx + i < Len(lines)
        /\ _single_line_match(lines[start_idx + i + 1], target_lines[i + 1])

\* CodeMatcher._calculate_end_index
_calculate_end_index(start_idx, matched_lines, original_target) ==
    LET base_end       == start_idx + matched_lines
        original_lines == splitlines(original_target)
    IN  IF Len(original_lines) > matched_lines
        THEN base_end + (Len(original_lines) - matched_lines)
        ELSE base_end

\* the last window of hits instead of the first
last_window(hits, n_lines, n_target, original_target) ==
    IF hits = {} THEN None
    ELSE <<CHOOSE w \in hits : \A t \in hits : w >= t,
           Min(_calculate_end_index(CHOOSE w \in hits : \A t \in hits : w >= t,
                                    n_target, original_target), n_lines)>>

\* _find_exact_match lines 73-79: the first window of hits, its end index
first_window(hits, n_lines, n_target, original_target) ==
    IF hits = {} THEN None
    ELSE LET start_idx == CHOOSE s \in hits : \A t \in hits : s <= t
             end_idx   == _calculate_end_index(start_idx, n_target, original_target)
         IN  <<start_idx, Min(end_idx, n_lines)>>

\* CodeMatcher._find_exact_match: None or <<start_idx, end_idx>>
_find_exact_match(lines, target_lines, original_target) ==
    IF target_lines = <<>> THEN None
    ELSE first_window({s \in 0..(Len(lines) - Len(target_lines)) :
                          _lines_match_at_position(lines, target_lines, s)},
                      Len(lines), Len(target_lines), original_target)

\* re.findall(r'\w+', line)
RECURSIVE findall_words(_)
findall_words(line) ==
    IF line = <<>> THEN {}
    ELSE LET n == span(line, WordChars)
         IN  IF n = 0 THEN findall_words(Tail(line))
             ELSE {SubSeq(line, 1, n)}
                  \cup findall_words(SubSeq(line, n + 1, Len(line)))

\* re.findall(r'["\']([^"\']+)["\']', line)
RECURSIVE findall_quoted(_)
findall_quoted(line) ==
    IF line = <<>> THEN {}
    ELSE IF Head(line) \notin Quotes THEN findall_quoted(Tail(line))
    ELSE LET rest == Tail(line)
             n    == span_not(rest, Quotes)
         IN  IF n >= 1 /\ n < Len(rest)
             THEN {SubSeq(rest, 1, n)}
                  \cup findall_quoted(SubSeq(rest, n + 2, Len(rest)))
             ELSE findall_quoted(rest)

\* length of the match of \d+\.\d+(?:\.\d+)? at the head of s, 0 when none
version_match_len(s) ==
    LET d1 == span(s, Digits)
        r1 == SubSeq(s, d1 + 1, Len(s))
        d2 == IF r1 # <<>> /\ Head(r1) = "." THEN span(Tail(r1), Digits) ELSE 0
        r2 == SubSeq(s, d1 + d2 + 2, Len(s))
        d3 == IF r2 # <<>> /\ Head(r2) = "." THEN span(Tail(r2), Digits) ELSE 0
    IN  IF d1 = 0 \/ d2 = 0 THEN 0
        ELSE IF d3 = 0 THEN d1 + 1 + d2
        ELSE d1 + 1 + d2 + 1 + d3

\* re.findall(r'\d+\.\d+(?:\.\d+)?', line)
RECURSIVE findall_versions(_)
findall_versions(line) ==
    IF line = <<>> THEN {}
    ELSE LET n == version_match_len(line)
         IN  IF n = 0 THEN findall_versions(Tail(line))
             ELSE {SubSeq(line, 1, n)}
                  \cup findall_versions(SubSeq(line, n + 1, Len(line)))

generic_words ==
    { <<"t","h","e">>, <<"a","n","d">>, <<"o","r">>, <<"i","f">>,
      <<"t","h","e","n">>, <<"e","l","s","e">>, <<"f","o","r">>,
      <<"w","h","i","l","e">>, <<"d","o">>, <<"r","e","t","u","r","n">>,
      <<"p","u","b","l","i","c">>, <<"p","r","i","v","a","t","e">>,
      <<"s","t","a","t","i","c">>, <<"f","i","n","a","l">>,
      <<"c","l","a","s","s">>, <<"i","m","p","o","r","t">>,
      <<"p","a","c","k","a","g","e">> }

\* CodeMatcher._extract_key_patterns, as the set list(set(...)) holds
_extract_key_patterns(target_lines) ==
    LET key_patterns ==
            UNION {findall_words(target_lines[i]) \cup findall_quoted(target_lines[i])
                   \cup findall_versions(target_lines[i]) : i \in DOMAIN target_lines}
    IN  {p \in key_patterns : lower(p) \notin generic_words /\ Len(p) > 1}

\* score of the window that starts at start_idx in _find_fuzzy_match
fuzzy_score(lines, n_target, key_patterns, start_idx) ==
    LET section_content ==
            join(<<" ">>, Slice(lines, start_idx, start_idx + n_target))
    IN  Cardinality({p \in key_patterns : contains(section_content, p)})

\* the first window that reaches the threshold, whatever the later scores
first_qualifying_window(score, n_patterns, n_target) ==
    IF {s \in DOMAIN score : 10 * score[s] >= 7 * n_patterns /\ score[s] >= 2} = {}
    THEN None
    ELSE <<CHOOSE s \in DOMAIN score :
               /\ 10 * score[s] >= 7 * n_patterns /\ score[s] >= 2
               /\ \A t \in DOMAIN score :
                      (10 * score[t] >= 7 * n_patterns /\ score[t] >= 2) => s <= t,
           (CHOOSE s \in DOMAIN score :
               /\ 10 * score[s] >= 7 * n_patterns /\ score[s] >= 2
               /\ \A t \in DOMAIN score :
                      (10 * score[t] >= 7 * n_patterns /\ score[t] >= 2) => s <= t)
           + n_target>>

\* _find_fuzzy_match lines 178-199: score[s] is the score of window s and
\* threshold = max(len(key_patterns) * 0.7, 2), compared in tenths; a later
\* window replaces best_match only with a strictly greater score
best_window(score, n_patterns, n_target) ==
    LET windows == {s \in DOMAIN score :
                       10 * score[s] >= 7 * n_patterns /\ score[s] >= 2}
    IN  IF windows = {} THEN None
        ELSE LET best == CHOOSE s \in windows :
                            /\ \A t \in windows : score[t] <= score[s]
                            /\ \A t \in windows : t < s => score[t] < score[s]
             IN  <<best, best + n_target>>

\* _find_fuzzy_match lines 174-199, the key patterns extracted
fuzzy_match_with(lines, n_target, key_patterns) ==
    IF key_patterns = {} THEN None
    ELSE best_window([s \in 0..(Len(lines) - n_target) |->
                         fuzzy_score(lines, n_target, key_patterns, s)],
                     Cardinality(key_patterns), n_target)

\* CodeMatcher._find_fuzzy_match: None or <<start_idx, end_idx>>
_find_fuzzy_match(lines, target_lines) ==
    IF target_lines = <<>> THEN None
    ELSE fuzzy_match_with(lines, Len(target_lines),
                          _extract_key_patterns(target_lines))

\* find_content_match lines 46-50: the fuzzy pass runs when the exact fails
exact_or_fuzzy(exact_match, lines, target_lines) ==
    IF exact_match # None THEN exact_match
    ELSE _find_fuzzy_match(lines, target_lines)

\* find_content_match lines 44-50, both lists normalized
match_normalized(normalized_file_lines, target_lines, target) ==
    exact_or_fuzzy(_find_exact_match(normalized_file_lines, target_lines, target),
                   normalized_file_lines, target_lines)

\* find_content_match lines 35-38
target_lines_of(target) ==
    LET nonblank == SelectSeq(splitlines(target), LAMBDA l : strip(l) # <<>>)
    IN  [i \in DOMAIN nonblank |-> _normalize_line(nonblank[i])]

\* CodeMatcher.find_content_match: None or <<start_idx, end_idx>>
find_content_match(lines, target) ==
    IF strip(target) = <<>> THEN None
    ELSE match_normalized([i \in DOMAIN lines |-> _normalize_line(lines[i])],
                          target_lines_of(target), target)

\* len(line) - len(line.lstrip())
indent_width(line) == Len(line) - Len(lstrip(line))

\* CodeMatcher._extract_base_indentation
_extract_base_indentation(original_lines) ==
    LET nonblank     == SelectSeq(original_lines, LAMBDA l : strip(l) # <<>>)
        line_content == [i \in DOMAIN nonblank |->
                            rstrip_chars(nonblank[i], {"\n", "\r"})]
        indentations == {indent_width(line_content[i]) : i \in DOMAIN nonblank}
        min_indent   == CHOOSE m \in indentations : \A k \in indentations : m <= k
    IN  IF original_lines = <<>> THEN <<>>
        ELSE IF nonblank = <<>> THEN <<>>
        ELSE Slice(line_content[1], 0, min_indent)

\* a turn of the loop without the terminator of lines 333-334
preserved_line_unterminated(line, base_indent) ==
    IF strip(line) # <<>>
    THEN IF indent_width(line) >= Len(base_indent) /\ startswith(line, base_indent)
         THEN line
         ELSE IF indent_width(line) > 0 THEN base_indent \o line
         ELSE base_indent \o strip(line)
    ELSE line

\* one turn of the loop of CodeMatcher.preserve_indentation (lines 321-337)
preserved_line(line, base_indent) ==
    LET line_indent == indent_width(line)
        indented    ==
            IF strip(line) # <<>>
            THEN IF line_indent >= Len(base_indent) /\ startswith(line, base_indent)
                 THEN line
                 ELSE IF line_indent > 0 THEN base_indent \o line
                 ELSE base_indent \o strip(line)
            ELSE line
    IN  IF endswith_nl(indented) THEN indented ELSE Append(indented, NL)

\* CodeMatcher.preserve_indentation; start_idx and end_idx are given exactly
\* when original_lines is
preserve_indentation(new_content, base_indentation, original_lines, start_idx, end_idx) ==
    LET new_lines     == splitlines(new_content)
        original_line == rstrip_chars(original_lines[start_idx + 1], {"\n", "\r"})
        indent_str    == Slice(original_line, 0, indent_width(original_line))
        base_indent   ==
            IF base_indentation # None THEN base_indentation
            ELSE IF original_lines # NoLines
                 THEN _extract_base_indentation(
                          Slice(original_lines, start_idx, end_idx))
                 ELSE <<>>
    IN  IF strip(new_content) = <<>> THEN <<>>
        ELSE IF new_lines = <<>> THEN <<>>
        ELSE IF /\ base_indentation = None
                /\ original_lines # NoLines
                /\ end_idx - start_idx = 1
                /\ Len(new_lines) = 1
             THEN <<indent_str \o strip(new_lines[1]) \o <<NL>>>>
        ELSE [i \in DOMAIN new_lines |-> preserved_line(new_lines[i], base_indent)]

----------------------------------------------------------------------------
(* ChangeWriter (src/src/writers/change_writer.py)                         *)

\* what an apply routine hands back: its return value, whether it called
\* _write_file, and the lines it wrote
Outcome(ok, wrote, lines) == [success |-> ok, wrote |-> wrote, lines |-> lines]

\* lines[a:b] = new_lines
Splice(lines, a, b, new_lines) ==
    Slice(lines, 0, a) \o new_lines \o SubSeq(lines, Max(a, b) + 1, Len(lines))

\* _validate_change_bounds without the upper check of end_line (line 242)
start_line_bounds_only(change, total_lines) ==
    /\ change.location.start_line >= 1
    /\ change.location.start_line <= total_lines
    /\ change.location.end_line >= 1
    /\ change.location.start_line <= change.location.end_line

\* ChangeWriter._validate_change_bounds
_validate_change_bounds(change, total_lines) ==
    IF change.location.start_line < 1 \/ change.location.start_line > total_lines
    THEN FALSE
    ELSE IF change.location.end_line < 1 \/ change.location.end_line > total_lines
    THEN FALSE
    ELSE IF change.location.start_line > change.location.end_line
    THEN FALSE
    ELSE TRUE

\* _detect_insert_indentation without the vote: the indentation of the first
\* non-blank line among the five nearby lines
first_nearby_indentation(lines, insert_idx) ==
    LET line_at(offset) ==
            rstrip_chars(lines[insert_idx + offset + 1], {"\n", "\r"})
        nearby  == SelectSeq(<<-2, -1, 0, 1, 2>>,
                       LAMBDA offset :
                           /\ 0 <= insert_idx + offset
                           /\ insert_idx + offset < Len(lines)
                           /\ strip(line_at(offset)) # <<>>)
    IN  IF nearby = <<>> THEN <<>>
        ELSE Slice(line_at(nearby[1]), 0, indent_width(line_at(nearby[1])))

\* ChangeWriter._detect_insert_indentation
_detect_insert_indentation(lines, insert_idx) ==
    LET line_at(offset) ==
            rstrip_chars(lines[insert_idx + offset + 1], {"\n", "\r"})
        nearby  == SelectSeq(<<-2, -1, 0, 1, 2>>,
                       LAMBDA offset :
                           /\ 0 <= insert_idx + offset
                           /\ insert_idx + offset < Len(lines)
                           /\ strip(line_at(offset)) # <<>>)
        indent  == [i \in DOMAIN nearby |-> indent_width(line_at(nearby[i]))]
        indent_counts(n) == Cardinality({i \in DOMAIN nearby : indent[i] = n})
        first(n) == CHOOSE i \in DOMAIN nearby :
                        indent[i] = n /\ \A j \in 1..(i - 1) : indent[j] # n
        \* max() keeps the first of the entries with the greatest count, and
        \* the dict yields its entries in the order they were inserted
        most_common_indent ==
            CHOOSE n \in Range(indent) :
                \A m \in Range(indent) :
                    \/ indent_counts(m) < indent_counts(n)
                    \/ indent_counts(m) = indent_counts(n) /\ first(n) <= first(m)
    IN  IF nearby = <<>> THEN <<>>
        ELSE Slice(line_at(nearby[first(most_common_indent)]), 0,
                   most_common_indent)

\* ChangeWriter._write_file: f.writelines(lines)
_write_file(lines) == join(<<>>, lines)

\* ChangeWriter._apply_insert_by_line_number
_apply_insert_by_line_number(lines, change) ==
    LET start_idx        == change.location.start_line - 1
        base_indentation == _detect_insert_indentation(lines, start_idx)
        new_lines        == preserve_indentation(change.after, base_indentation,
                                                 NoLines, 0, 0)
    IN  IF ~_validate_change_bounds(change, Len(lines))
        THEN Outcome(FALSE, FALSE, lines)
        ELSE Outcome(TRUE, TRUE, Splice(lines, start_idx, start_idx, new_lines))

\* the replace-or-remove with a delete that stops one line short of end_idx
rewrite_delete_short(lines, change, start_idx, end_idx) ==
    IF change.change_type = "update"
    THEN Splice(lines, start_idx, end_idx,
                preserve_indentation(change.after, None, lines, start_idx, end_idx))
    ELSE IF change.change_type = "delete"
    THEN Splice(lines, start_idx, Max(start_idx, end_idx - 1), <<>>)
    ELSE lines

\* the replace-or-remove both apply routines share (lines 181-188, 213-220)
rewrite(lines, change, start_idx, end_idx) ==
    IF change.change_type = "update"
    THEN Splice(lines, start_idx, end_idx,
                preserve_indentation(change.after, None, lines, start_idx, end_idx))
    ELSE IF change.change_type = "delete"
    THEN Splice(lines, start_idx, end_idx, <<>>)
    ELSE lines

\* _try_line_number_approach without the comparison of lines 176-179: the
\* stated range is rewritten whatever it holds
line_numbers_unverified(lines, change) ==
    IF ~_validate_change_bounds(change, Len(lines))
    THEN Outcome(FALSE, FALSE, lines)
    ELSE Outcome(TRUE, TRUE, rewrite(lines, change,
                                     change.location.start_line - 1,
                                     change.location.end_line))

\* ChangeWriter._try_line_number_approach
_try_line_number_approach(lines, change) ==
    LET start_idx        == change.location.start_line - 1
        end_idx          == change.location.end_line
        actual_content   == rstrip_chars(join(<<>>, Slice(lines, start_idx, end_idx)),
                                         {NL})
        expected_content == rstrip_chars(change.before, {NL})
    IN  IF ~_validate_change_bounds(change, Len(lines))
        THEN Outcome(FALSE, FALSE, lines)
        ELSE IF actual_content = expected_content
        THEN Outcome(TRUE, TRUE, rewrite(lines, change, start_idx, end_idx))
        ELSE Outcome(FALSE, FALSE, lines)

\* _apply_by_content_matching without the _write_file of line 226: the
\* change is reported as applied, the file is not written
apply_at_match_unwritten(lines, change, match_found) ==
    IF match_found = None
    THEN Outcome(FALSE, FALSE, lines)
    ELSE Outcome(TRUE, FALSE, lines)

\* _apply_by_content_matching returning False at line 209 only after the
\* whole file was rewritten and written
apply_at_match_written_unfound(lines, change, match_found) ==
    IF match_found = None
    THEN Outcome(FALSE, TRUE, rewrite(lines, change, 0, Len(lines)))
    ELSE Outcome(TRUE, TRUE,
                 rewrite(lines, change, match_found[1], match_found[2]))

\* _apply_by_content_matching lines 199-226, the match result known
apply_at_match(lines, change, match_found) ==
    IF match_found = None
    THEN Outcome(FALSE, FALSE, lines)
    ELSE Outcome(TRUE, TRUE,
                 rewrite(lines, change, match_found[1], match_found[2]))

\* ChangeWriter._apply_by_content_matching
_apply_by_content_matching(lines, change) ==
    apply_at_match(lines, change, find_content_match(lines, change.before))

\* _apply_single_change lines 112-115: content matching when the line
\* numbers did not apply
line_number_then_content(by_line_number, lines, change) ==
    IF by_line_number.success THEN by_line_number
    ELSE _apply_by_content_matching(lines, change)

\* _apply_single_change lines 107-117 on the lines read.
\* change_type "missing": the Change of src/src/models/response.py declares
\* no change_type field, so line 107 raises AttributeError, caught at 119.
apply_to_lines(lines, change) ==
    IF change.change_type = "missing" THEN Outcome(FALSE, FALSE, lines)
    ELSE IF change.change_type = "insert"
    THEN _apply_insert_by_line_number(lines, change)
    ELSE IF change.change_type \in {"update", "delete"}
    THEN line_number_then_content(_try_line_number_approach(lines, change),
                                  lines, change)
    ELSE Outcome(FALSE, FALSE, lines)

\* ChangeWriter._apply_single_change on the content read from the file
_apply_single_change(content, change) ==
    apply_to_lines(splitlines_keepends(content), change)

\* the changes left in the order of the response
in_response_order(changes) == changes

\* sorted(all_changes, key=lambda c: c.location.start_line, reverse=True):
\* the sort is stable, equal start lines keep the order of the response
RECURSIVE sorted_by_start_line_desc(_)
sorted_by_start_line_desc(changes) ==
    IF changes = <<>> THEN <<>>
    ELSE LET x    == changes[Len(changes)]
             rest == sorted_by_start_line_desc(SubSeq(changes, 1, Len(changes) - 1))
             keep == {i \in DOMAIN rest :
                         rest[i].location.start_line >= x.location.start_line}
         IN  SubSeq(rest, 1, Cardinality(keep)) \o <<x>>
             \o SubSeq(rest, Cardinality(keep) + 1, Len(rest))

----------------------------------------------------------------------------
(* Bounded inputs                                                          *)

MaxResponses == 2     \* responses in the list given to process_responses
MaxChanges == 2       \* changes in one response
MaxLines == 3         \* lines of a file given to a single apply
MaxInsertLines == 5   \* lines of a file of the insert-indentation inputs
MaxMatchLines == 3    \* lines of a file given to find_content_match alone

Files == {"f1", "f2"}

aa == <<"a", "a">>
bb == <<"b", "b">>
cc == <<"c", "c">>
zz == <<"z", "z">>
blank == <<>>
indent2 == <<" ", " ">>
indent4 == <<" ", " ", " ", " ">>

\* the newline-terminated text of a list of lines
Text(lines) == join(<<>>, [i \in DOMAIN lines |-> Append(lines[i], NL)])

\* every list of 0..n elements of S
SeqsUpTo(S, n) == UNION {[1..k -> S] : k \in 0..n}

Change(type, path, start, end, before, after) ==
    [change_type |-> type,
     location    |-> [file_path |-> path, start_line |-> start, end_line |-> end],
     before      |-> before,
     after       |-> after]

\* changes an analysis may propose for the files of a run
PassChanges(path) ==
    IF path = "f1"
    THEN { Change("insert", path, 1, 1, <<>>, aa),
           Change("update", path, 1, 1, aa, bb),
           Change("update", path, 1, 1, bb, cc),
           Change("update", path, 1, 3, join(<<NL>>, <<aa, blank, bb>>), cc),
           Change("delete", path, 2, 2, bb, <<>>),
           Change("missing", path, 2, 2, bb, cc) }
    ELSE { Change("update", path, 1, 1, bb, cc) }

\* a response: the changes of one analysis, all of one file
\* (BaseUpgrader.analyze sets every change's location.file_path)
Responses ==
    UNION {[changes : SeqsUpTo(PassChanges(path), MaxChanges)] : path \in Files}

PassContents == {Text(<<aa, bb>>), Text(<<aa, blank, bb>>)}

----------------------------------------------------------------------------
(* process_responses as a state machine                                    *)

\* no call of preserve_indentation under way
NoIndentation ==
    /\ indent_call = None
    /\ result_lines = <<>>

\* no extraction under way
NoExtraction ==
    /\ extract_content = <<>>
    /\ keywords = <<>>
    /\ raw_blocks = <<>>
    /\ merged_blocks = <<>>
    /\ code_blocks = <<>>

Idle ==
    /\ file_lines = <<>>
    /\ target_content = <<>>
    /\ match_result = None
    /\ NoExtraction
    /\ NoIndentation

Init ==
    /\ disk \in {[path \in Files |-> IF path = "f1" THEN c ELSE Text(<<bb>>)] :
                    c \in PassContents}
    /\ dry_run \in BOOLEAN
    /\ auto_approve \in BOOLEAN
    /\ pc = "start"
    /\ n_resp = 0
    /\ file_path = "f1"
    /\ all_changes = <<>>
    /\ ci = 1
    /\ applied_count = 0
    /\ reads = 0
    /\ writes = 0
    /\ history = <<>>
    /\ Idle

\* process_responses line 20: an empty list of responses
NoResponses ==
    /\ pc = "start"
    /\ pc' = "done"
    /\ UNCHANGED <<disk, dry_run, auto_approve, n_resp, file_path, all_changes,
                   ci, applied_count, reads, writes, history, file_lines,
                   target_content, match_result,
                   extractor_vars, indent_vars>>

\* process_responses line 25: a response without changes is passed over
SkipEmptyResponse ==
    /\ pc \in {"start", "loop"}
    /\ n_resp < MaxResponses
    /\ \E response \in Responses : response.changes = <<>>
    /\ n_resp' = n_resp + 1
    /\ pc' = "loop"
    /\ UNCHANGED <<disk, dry_run, auto_approve, file_path, all_changes, ci,
                   applied_count, reads, writes, history, file_lines,
                   target_content, match_result,
                   extractor_vars, indent_vars>>

\* the next response of the list without the dry_run branch of lines 48-55
BeginFileResponsesNoDryRun ==
    /\ pc \in {"start", "loop"}
    /\ n_resp < MaxResponses
    /\ \E response \in Responses :
        /\ response.changes # <<>>
        /\ file_path' = response.changes[1].location.file_path
        /\ all_changes' = sorted_by_start_line_desc(response.changes)
    /\ n_resp' = n_resp + 1
    /\ ci' = 1
    /\ applied_count' = 0
    /\ reads' = 0
    /\ writes' = 0
    /\ pc' = "apply"
    /\ UNCHANGED <<disk, dry_run, auto_approve, history, file_lines,
                   target_content, match_result,
                   extractor_vars, indent_vars>>

\* process_responses line 26-28 and _process_file_responses lines 36-55:
\* the next response of the list, its changes sorted; a dry run prints them
BeginFileResponses ==
    /\ pc \in {"start", "loop"}
    /\ n_resp < MaxResponses
    /\ \E response \in Responses :
        /\ response.changes # <<>>
        /\ file_path' = response.changes[1].location.file_path
        /\ all_changes' = sorted_by_start_line_desc(response.changes)
    /\ n_resp' = n_resp + 1
    /\ ci' = 1
    /\ applied_count' = 0
    /\ reads' = 0
    /\ writes' = 0
    /\ pc' = IF dry_run THEN "loop" ELSE "apply"
    /\ UNCHANGED <<disk, dry_run, auto_approve, history, file_lines,
                   target_content, match_result,
                   extractor_vars, indent_vars>>

\* one call of _apply_single_change whose failure ends the loop over the
\* changes, as an exception that line 119 did not catch would
RecordOrAbort(change, outcome, post) ==
    /\ reads' = reads + 1
    /\ writes' = IF outcome.wrote THEN writes + 1 ELSE writes
    /\ disk' = [disk EXCEPT ![file_path] = post]
    /\ applied_count' = IF outcome.success THEN applied_count + 1
                        ELSE applied_count
    /\ history' = Append(history,
                         [resp      |-> n_resp,
                          file_path |-> file_path,
                          change    |-> change,
                          attempted |-> TRUE,
                          success   |-> outcome.success,
                          pre       |-> disk[file_path],
                          post      |-> post])
    /\ ci' = IF outcome.success THEN ci + 1 ELSE Len(all_changes) + 1

\* what one call of _apply_single_change leaves behind: one read of the
\* file, one write when an apply routine reached _write_file
Record(change, outcome, post) ==
    /\ reads' = reads + 1
    /\ writes' = IF outcome.wrote THEN writes + 1 ELSE writes
    /\ disk' = [disk EXCEPT ![file_path] = post]
    /\ applied_count' = IF outcome.success THEN applied_count + 1
                        ELSE applied_count
    /\ history' = Append(history,
                         [resp      |-> n_resp,
                          file_path |-> file_path,
                          change    |-> change,
                          attempted |-> TRUE,
                          success   |-> outcome.success,
                          pre       |-> disk[file_path],
                          post      |-> post])
    /\ ci' = ci + 1

\* the file after the call: what _write_file wrote, if it was reached
Written(content, outcome) ==
    IF outcome.wrote THEN _write_file(outcome.lines) ELSE content

Resolve(content, change, outcome) ==
    Record(change, outcome, Written(content, outcome))

\* _apply_single_change(file_path, all_changes[ci], auto_approve)
Attempt ==
    Resolve(disk[file_path], all_changes[ci],
            _apply_single_change(disk[file_path], all_changes[ci]))

\* _apply_all_changes_batch lines 88-92: one turn of the loop
ApplyBatch ==
    /\ pc = "apply"
    /\ auto_approve
    /\ ci <= Len(all_changes)
    /\ Attempt
    /\ UNCHANGED <<dry_run, auto_approve, pc, n_resp, file_path, all_changes,
                   file_lines, target_content, match_result,
                   extractor_vars, indent_vars>>

\* _apply_changes_interactively lines 71-80: the user accepts the change
ApplyConfirmed ==
    /\ pc = "apply"
    /\ ~auto_approve
    /\ ci <= Len(all_changes)
    /\ Attempt
    /\ UNCHANGED <<dry_run, auto_approve, pc, n_resp, file_path, all_changes,
                   file_lines, target_content, match_result,
                   extractor_vars, indent_vars>>

\* a declined change whose edit reaches the file all the same
DeclinedButWritten(content, change, outcome) ==
    /\ disk' = [disk EXCEPT ![file_path] = Written(content, outcome)]
    /\ history' = Append(history,
                         [resp      |-> n_resp,
                          file_path |-> file_path,
                          change    |-> change,
                          attempted |-> FALSE,
                          success   |-> FALSE,
                          pre       |-> content,
                          post      |-> content])

\* the user declines the change, and it is applied without being counted
SkipDeclinedButApplied ==
    /\ pc = "apply"
    /\ ~auto_approve
    /\ ci <= Len(all_changes)
    /\ DeclinedButWritten(disk[file_path], all_changes[ci],
                          _apply_single_change(disk[file_path], all_changes[ci]))
    /\ ci' = ci + 1
    /\ UNCHANGED <<dry_run, auto_approve, pc, n_resp, file_path,
                   all_changes, applied_count, reads, writes, file_lines,
                   target_content, match_result,
                   extractor_vars, indent_vars>>

\* _apply_changes_interactively lines 81-83: the user declines the change
SkipDeclined ==
    /\ pc = "apply"
    /\ ~auto_approve
    /\ ci <= Len(all_changes)
    /\ history' = Append(history,
                         [resp      |-> n_resp,
                          file_path |-> file_path,
                          change    |-> all_changes[ci],
                          attempted |-> FALSE,
                          success   |-> FALSE,
                          pre       |-> disk[file_path],
                          post      |-> disk[file_path]])
    /\ ci' = ci + 1
    /\ UNCHANGED <<disk, dry_run, auto_approve, pc, n_resp, file_path,
                   all_changes, applied_count, reads, writes, file_lines,
                   target_content, match_result,
                   extractor_vars, indent_vars>>

\* the loop over the changes ends: back in process_responses
EndFile ==
    /\ pc = "apply"
    /\ ci > Len(all_changes)
    /\ pc' = "loop"
    /\ UNCHANGED <<disk, dry_run, auto_approve, n_resp, file_path, all_changes,
                   ci, applied_count, reads, writes, history, file_lines,
                   target_content, match_result,
                   extractor_vars, indent_vars>>

\* the loop over the responses ends
Finish ==
    /\ pc = "loop"
    /\ pc' = "done"
    /\ UNCHANGED <<disk, dry_run, auto_approve, n_resp, file_path, all_changes,
                   ci, applied_count, reads, writes, history, file_lines,
                   target_content, match_result,
                   extractor_vars, indent_vars>>

Next ==
    \/ NoResponses
    \/ SkipEmptyResponse
    \/ BeginFileResponses
    \/ ApplyBatch
    \/ ApplyConfirmed
    \/ SkipDeclined
    \/ EndFile
    \/ Finish

Spec == Init /\ [][Next]_vars

----------------------------------------------------------------------------
(* process_responses with auto_approve on a disk whose writes may fail     *)

\* what a failed _write_file leaves behind: open(file_path, 'w') raised and
\* the file is as it was, or writelines raised after the file was truncated
FailedWrite(content) == {content, <<>>}

\* _write_file lines 234-236: the write raises, the change is reported failed
RecordFailedWrite(change, outcome, left) ==
    /\ outcome.wrote
    /\ reads' = reads + 1
    /\ writes' = writes + 1
    /\ disk' = [disk EXCEPT ![file_path] = left]
    /\ history' = Append(history,
                         [resp      |-> n_resp,
                          file_path |-> file_path,
                          change    |-> change,
                          attempted |-> TRUE,
                          success   |-> FALSE,
                          pre       |-> disk[file_path],
                          post      |-> left])
    /\ ci' = ci + 1

\* _apply_all_changes_batch lines 88-92: one turn of the loop, the write of
\* the change fails
ApplyBatchWriteFails ==
    /\ pc = "apply"
    /\ auto_approve
    /\ ci <= Len(all_changes)
    /\ \E left \in FailedWrite(disk[file_path]) :
          RecordFailedWrite(all_changes[ci],
                            _apply_single_change(disk[file_path], all_changes[ci]),
                            left)
    /\ UNCHANGED <<dry_run, auto_approve, pc, n_resp, file_path, all_changes,
                   applied_count, file_lines, target_content, match_result,
                   extractor_vars, indent_vars>>

InitFail == Init /\ auto_approve /\ ~dry_run

NextFail ==
    \/ NoResponses
    \/ SkipEmptyResponse
    \/ BeginFileResponses
    \/ ApplyBatch
    \/ ApplyBatchWriteFails
    \/ EndFile
    \/ Finish

SpecFail == InitFail /\ [][NextFail]_vars


----------------------------------------------------------------------------
(* One call of _apply_single_change on bounded files and changes           *)

tab4 == <<"\t", " ", " ", " ">>

\* every newline-terminated file of lo..hi lines over a vocabulary of lines
Contents(vocabulary, lo, hi) ==
    {Text(lines) : lines \in UNION {[1..k -> vocabulary] : k \in lo..hi}}

ApplyLines == {aa, indent2 \o aa, aa \o <<" ">> \o bb, blank}

ApplyBefore ==
    {<<>>, aa, bb \o <<" ">> \o aa, <<NL>> \o aa, aa \o <<NL, NL>>,
     aa \o <<NL>> \o aa}

ApplyAfter == {cc, indent2 \o cc, <<" ">>, <<>>}

ApplyChanges ==
    {Change(type, "f1", start, end, before, after) :
        type \in {"update"}, start \in 0..(MaxLines + 1),
        end \in 0..(MaxLines + 1), before \in ApplyBefore, after \in ApplyAfter}
    \cup
    {Change("delete", "f1", start, end, before, <<>>) :
        start \in 0..(MaxLines + 1), end \in 0..(MaxLines + 1),
        before \in ApplyBefore}
    \cup
    {Change("insert", "f1", start, end, <<>>, after) :
        start \in 0..(MaxLines + 2), end \in 0..(MaxLines + 2),
        after \in ApplyAfter}
    \cup
    {Change(type, "f1", 1, 1, aa, cc) : type \in {"missing", "other"}}

IndentLines == {aa, indent4 \o aa, tab4 \o aa, blank}

IndentChanges ==
    {Change("insert", "f1", start, end, <<>>, zz) :
        start \in 1..MaxInsertLines, end \in 1..MaxInsertLines}

\* the state in which _apply_all_changes_batch is about to apply `change`,
\* the only change of the only response, to a file that holds `content`
BeforeApply(content, change) ==
    /\ disk = [path \in Files |-> IF path = "f1" THEN content ELSE Text(<<bb>>)]
    /\ dry_run = FALSE
    /\ auto_approve = TRUE
    /\ pc = "apply"
    /\ n_resp = 1
    /\ file_path = "f1"
    /\ all_changes = <<change>>
    /\ ci = 1
    /\ applied_count = 0
    /\ reads = 0
    /\ writes = 0
    /\ history = <<>>
    /\ Idle

InitApply ==
    \/ \E content \in Contents(ApplyLines, 0, MaxLines), change \in ApplyChanges :
           BeforeApply(content, change)
    \/ \E content \in Contents(IndentLines, 3, MaxInsertLines),
          change \in IndentChanges :
           BeforeApply(content, change)

NextApply == ApplyBatch

SpecApply == InitApply /\ [][NextApply]_vars

----------------------------------------------------------------------------
(* find_content_match alone on bounded file lines and targets              *)

MatchLines == {aa, indent2 \o aa, bb, blank, aa \o <<" ">> \o bb}

\* ''.join(file_lines[a:b])
SliceText(lines, a, b) == join(<<>>, Slice(lines, a, b))

MatchFiles ==
    UNION {[1..k -> {Append(l, NL) : l \in MatchLines}] : k \in 0..MaxMatchLines}

MatchTargets(lines) ==
    {SliceText(lines, a, b) : a \in 0..Len(lines), b \in 0..Len(lines)}
    \cup {aa \o <<" ">> \o bb, cc,
          aa \o <<" ", " ">> \o bb,
          <<"\t">> \o aa \o <<" ">> \o bb \o <<" ">>,
          <<" ">> \o aa \o <<NL, "\t">> \o bb \o <<" ", NL>>}

\* lines that share words with the targets below without matching them
FuzzyLines ==
    {<<"a", "a", " ", "b", "b", " ", "c", "c">>, <<"z", "z", " ", "c", "c", " ", "b", "b", " ", "a", "a">>, <<"a", "a", " ", "b", "b">>, <<"c", "c", " ", "b", "b", " ", "a", "a">>}

FuzzyFiles ==
    UNION {[1..k -> {Append(l, NL) : l \in FuzzyLines}] : k \in 0..MaxMatchLines}

\* targets of four, two and four key patterns, the last of two lines
FuzzyTargets ==
    {<<"a", "a", " ", "b", "b", " ", "c", "c", " ", "z", "z">>, <<"b", "b", " ", "a", "a">>, <<"a", "a", " ", "z", "z">> \o <<NL>> \o <<"b", "b", " ", "c", "c">>}

InitMatch ==
    /\ \/ /\ file_lines \in MatchFiles
          /\ target_content \in MatchTargets(file_lines)
       \/ /\ file_lines \in FuzzyFiles
          /\ target_content \in FuzzyTargets
    /\ match_result = None
    /\ pc = "match"
    /\ NoExtraction
    /\ NoIndentation
    /\ disk = [path \in Files |-> <<>>]
    /\ dry_run = FALSE
    /\ auto_approve = FALSE
    /\ n_resp = 0
    /\ file_path = "f1"
    /\ all_changes = <<>>
    /\ ci = 1
    /\ applied_count = 0
    /\ reads = 0
    /\ writes = 0
    /\ history = <<>>

\* one call of find_content_match(file_lines, target_content)
Match ==
    /\ pc = "match"
    /\ match_result' = find_content_match(file_lines, target_content)
    /\ pc' = "matched"
    /\ UNCHANGED <<disk, dry_run, auto_approve, n_resp, file_path, all_changes,
                   ci, applied_count, reads, writes, history, file_lines,
                   target_content, extractor_vars, indent_vars>>

NextMatch == Match

SpecMatch == InitMatch /\ [][NextMatch]_vars


----------------------------------------------------------------------------
(* CodeBlockExtractor (src/src/utils/code_extractor.py)                    *)

PACKAGE == <<"p", "a", "c", "k", "a", "g", "e">>

IMPORT == <<"i", "m", "p", "o", "r", "t">>

\* str.count(c)
count(s, c) == Len(SelectSeq(s, LAMBDA x : x = c))

\* re.search(keyword, line) for a keyword without regex metacharacters
search(keyword, line) == contains(line, keyword)

\* CodeBlockExtractor._find_keyword_matches lines 117-121: the first keyword
\* of the list found in the line, 0 when none is
first_keyword(line, keyword_list) ==
    IF \E k \in DOMAIN keyword_list : search(keyword_list[k], line)
    THEN CHOOSE k \in DOMAIN keyword_list :
             /\ search(keyword_list[k], line)
             /\ \A j \in 1..(k - 1) : ~search(keyword_list[j], line)
    ELSE 0

\* the (line_number, keyword) tuples of the lines, in line order
keyword_matches_in(lines, keyword_list) ==
    LET hits == SelectSeq([i \in DOMAIN lines |-> i],
                          LAMBDA i : first_keyword(lines[i], keyword_list) # 0)
    IN  [j \in DOMAIN hits |->
            <<hits[j], keyword_list[first_keyword(lines[hits[j]], keyword_list)]>>]

\* CodeBlockExtractor._find_keyword_matches
_find_keyword_matches(content, keyword_list) ==
    keyword_matches_in(splitlines(content), keyword_list)

\* re.search(r"[{]\s*$", line) on a stripped line
ends_with_opening_brace(line) == line # <<>> /\ line[Len(line)] = "{"

\* re.search(r"^word\s", line)
starts_with_word(line, word) ==
    /\ Len(line) > Len(word)
    /\ SubSeq(line, 1, Len(word)) = word
    /\ line[Len(word) + 1] \in Whitespace

\* re.search(r"[}]\s*$|^package\s|^import\s|^@\w+", line) on a stripped line
is_boundary(line) ==
    \/ line # <<>> /\ line[Len(line)] = "}"
    \/ starts_with_word(line, PACKAGE)
    \/ starts_with_word(line, IMPORT)
    \/ Len(line) >= 2 /\ line[1] = "@" /\ line[2] \in WordChars

\* the loop of _find_block_start (lines 168-182) from 0-based index i down
RECURSIVE scan_backwards(_, _, _)
scan_backwards(lines, i, line_num) ==
    IF i < 0 THEN line_num
    ELSE IF ends_with_opening_brace(strip(lines[i + 1])) THEN i + 1
    ELSE IF is_boundary(strip(lines[i + 1])) THEN line_num
    ELSE scan_backwards(lines, i - 1, line_num)

\* CodeBlockExtractor._find_block_start
_find_block_start(lines, line_num) == scan_backwards(lines, line_num - 1, line_num)

\* re.sub(q + "[^" + q + "]*" + q, "", line) for a quote character q
RECURSIVE remove_quoted(_, _)
remove_quoted(line, q) ==
    IF line = <<>> THEN <<>>
    ELSE IF Head(line) = q /\ span_not(Tail(line), {q}) < Len(Tail(line))
    THEN remove_quoted(SubSeq(Tail(line), span_not(Tail(line), {q}) + 2,
                              Len(Tail(line))), q)
    ELSE <<Head(line)>> \o remove_quoted(Tail(line), q)

\* _is_in_string_or_comment lines 239-248 on the line without its strings
comment_or_all_braces_quoted(line, line_no_strings) ==
    \/ startswith(strip(line_no_strings), <<"/", "/">>)
    \/ startswith(strip(line_no_strings), <<"/", "*">>)
    \/ /\ count(line, "{") + count(line, "}") > 0
       /\ count(line_no_strings, "{") + count(line_no_strings, "}") = 0

\* CodeBlockExtractor._is_in_string_or_comment
_is_in_string_or_comment(line) ==
    comment_or_all_braces_quoted(line, remove_quoted(remove_quoted(line, "\""), "'"))

\* the loop of _find_block_end (lines 203-218) from 0-based index i on
RECURSIVE scan_forward(_, _, _, _, _)
scan_forward(lines, i, brace_count, found_opening, start_line) ==
    IF i >= Len(lines) THEN start_line
    ELSE IF _is_in_string_or_comment(lines[i + 1])
    THEN scan_forward(lines, i + 1, brace_count, found_opening, start_line)
    ELSE IF /\ found_opening \/ count(lines[i + 1], "{") > 0
            /\ brace_count + count(lines[i + 1], "{") - count(lines[i + 1], "}") = 0
    THEN i + 1
    ELSE scan_forward(lines, i + 1,
                      brace_count + count(lines[i + 1], "{") - count(lines[i + 1], "}"),
                      found_opening \/ count(lines[i + 1], "{") > 0,
                      start_line)

\* CodeBlockExtractor._find_block_end
_find_block_end(lines, start_line) ==
    scan_forward(lines, start_line - 1, 0, FALSE, start_line)

\* _find_enclosing_block lines 150-154, start and end found
block_or_line(start_line, end_line, line_num, keyword) ==
    IF start_line # 0 /\ end_line # 0 /\ start_line < end_line
    THEN <<start_line, end_line, keyword>>
    ELSE <<line_num, line_num, keyword>>

\* _find_enclosing_block lines 147-154, the start found
block_from(lines, start_line, line_num, keyword) ==
    block_or_line(start_line, _find_block_end(lines, start_line), line_num, keyword)

\* CodeBlockExtractor._find_enclosing_block on the lines of the content
_find_enclosing_block(lines, match) ==
    block_from(lines, _find_block_start(lines, match[1]), match[1], match[2])

\* sorted(blocks, key=lambda x: x[0]): stable, equal starts keep their order
RECURSIVE sorted_by_start(_)
sorted_by_start(blocks) ==
    IF blocks = <<>> THEN <<>>
    ELSE LET x    == blocks[Len(blocks)]
             rest == sorted_by_start(SubSeq(blocks, 1, Len(blocks) - 1))
             keep == {i \in DOMAIN rest : rest[i][1] <= x[1]}
         IN  SubSeq(rest, 1, Cardinality(keep)) \o <<x>>
             \o SubSeq(rest, Cardinality(keep) + 1, Len(rest))

\* a merge loop that joins a block only when it starts no later than the line
\* after the end of the range
RECURSIVE merge_from_next_line(_, _, _, _)
merge_from_next_line(rest, current_start, current_end, current_keywords) ==
    IF rest = <<>> THEN <<<<current_start, current_end, current_keywords>>>>
    ELSE IF rest[1][1] <= current_end + 1
    THEN merge_from_next_line(Tail(rest), current_start,
                              Max(current_end, rest[1][2]),
                              IF \E k \in DOMAIN current_keywords :
                                     current_keywords[k] = rest[1][3]
                              THEN current_keywords
                              ELSE Append(current_keywords, rest[1][3]))
    ELSE <<<<current_start, current_end, current_keywords>>>>
         \o merge_from_next_line(Tail(rest), rest[1][1], rest[1][2], <<rest[1][3]>>)

\* the loop of _merge_blocks (lines 277-291) over the blocks left
RECURSIVE merge_from(_, _, _, _)
merge_from(rest, current_start, current_end, current_keywords) ==
    IF rest = <<>> THEN <<<<current_start, current_end, current_keywords>>>>
    ELSE IF rest[1][1] <= current_end + 2
    THEN merge_from(Tail(rest), current_start, Max(current_end, rest[1][2]),
                    IF \E k \in DOMAIN current_keywords :
                           current_keywords[k] = rest[1][3]
                    THEN current_keywords
                    ELSE Append(current_keywords, rest[1][3]))
    ELSE <<<<current_start, current_end, current_keywords>>>>
         \o merge_from(Tail(rest), rest[1][1], rest[1][2], <<rest[1][3]>>)

\* a merge loop that tests adjacency against the end of the block merged last
\* instead of the end of the merged range
RECURSIVE merge_from_previous(_, _, _, _, _)
merge_from_previous(rest, current_start, current_end, previous_end, current_keywords) ==
    IF rest = <<>> THEN <<<<current_start, current_end, current_keywords>>>>
    ELSE IF rest[1][1] <= previous_end + 2
    THEN merge_from_previous(Tail(rest), current_start,
                             Max(current_end, rest[1][2]), rest[1][2],
                             IF \E k \in DOMAIN current_keywords :
                                    current_keywords[k] = rest[1][3]
                             THEN current_keywords
                             ELSE Append(current_keywords, rest[1][3]))
    ELSE <<<<current_start, current_end, current_keywords>>>>
         \o merge_from_previous(Tail(rest), rest[1][1], rest[1][2], rest[1][2],
                                <<rest[1][3]>>)

merge_sorted_against_previous(sorted_blocks) ==
    merge_from_previous(Tail(sorted_blocks), sorted_blocks[1][1], sorted_blocks[1][2],
                        sorted_blocks[1][2], <<sorted_blocks[1][3]>>)

\* _merge_blocks lines 274-293 on the sorted blocks
merge_sorted(sorted_blocks) ==
    merge_from(Tail(sorted_blocks), sorted_blocks[1][1], sorted_blocks[1][2],
               <<sorted_blocks[1][3]>>)

\* CodeBlockExtractor._merge_blocks
_merge_blocks(blocks) ==
    IF blocks = <<>> THEN <<>>
    ELSE IF Len(blocks) = 1
    THEN <<<<blocks[1][1], blocks[1][2], <<blocks[1][3]>>>>>>
    ELSE merge_sorted(sorted_by_start(blocks))

\* a block content that keeps the terminator of its last line
_extract_block_content_keepends(lines, start_line, end_line) ==
    join(<<>>, [i \in DOMAIN Slice(lines, start_line - 1, end_line) |->
                   Append(Slice(lines, start_line - 1, end_line)[i], NL)])

\* CodeBlockExtractor._extract_block_content on the lines of the content
_extract_block_content(lines, start_line, end_line) ==
    join(<<NL>>, Slice(lines, start_line - 1, end_line))

\* extract_blocks lines 70-74
raw_blocks_of(lines, keyword_matches) ==
    [m \in DOMAIN keyword_matches |-> _find_enclosing_block(lines, keyword_matches[m])]

\* extract_blocks lines 80-91
code_blocks_of(path, lines, merged) ==
    [b \in DOMAIN merged |->
        [content          |-> _extract_block_content(lines, merged[b][1], merged[b][2]),
         start_line       |-> merged[b][1],
         end_line         |-> merged[b][2],
         file_path        |-> path,
         matched_keywords |-> merged[b][3]]]

----------------------------------------------------------------------------
(* extract_blocks and _merge_blocks on bounded contents and block lists    *)

MaxExtractLines == 4  \* lines of a content given to extract_blocks
MaxBlocks == 3        \* blocks of a list given to _merge_blocks alone
MaxBlockLine == 5     \* greatest line number of those blocks

kw == <<"k", "w">>
jv == <<"j", "v">>

\* lines of a source file: a block opening, a block end, statements with a
\* keyword, an opening line with a keyword, an else, a comment and a string
\* with a brace, an opening line with a brace in a string, an import
ExtractLines ==
    { <<"m", " ", "{">>, <<"}">>, <<" ", "k", "w", ";">>, <<"j", "v", ";">>, <<"k", "w", " ", "{">>, <<"}", " ", "e", " ", "{">>, <<"/", "/", " ", "{">>,
      <<"s", "(", "\"", "{", "\"", ")", ";">>,
      <<"m", "(", "\"", "{", "\"", ")", " ", "{">>, <<"i", "m", "p", "o", "r", "t", " ", "k", "w">>,
      <<"}", ";">> }

\* keyword lists; the empty pattern matches every line
ExtractKeywords == {<<kw>>, <<jv, kw>>, <<<<>>>>}

\* a (start_line, end_line, keyword) tuple as _find_enclosing_block returns
MergeBlocks ==
    {blk \in (1..MaxBlockLine) \X (1..MaxBlockLine) \X {kw, jv} : blk[1] <= blk[2]}

\* the state outside the extractor
NoRun ==
    /\ disk = [path \in Files |-> <<>>]
    /\ dry_run = FALSE
    /\ auto_approve = FALSE
    /\ n_resp = 0
    /\ file_path = "f1"
    /\ all_changes = <<>>
    /\ ci = 1
    /\ applied_count = 0
    /\ reads = 0
    /\ writes = 0
    /\ history = <<>>
    /\ file_lines = <<>>
    /\ target_content = <<>>
    /\ match_result = None

InitExtract ==
    /\ NoRun
    /\ NoIndentation
    /\ merged_blocks = <<>>
    /\ code_blocks = <<>>
    /\ \/ /\ pc = "extract"
          /\ extract_content \in Contents(ExtractLines, 0, MaxExtractLines)
          /\ keywords \in ExtractKeywords
          /\ raw_blocks = <<>>
       \/ /\ pc = "merge"
          /\ extract_content = <<>>
          /\ keywords = <<>>
          /\ raw_blocks \in SeqsUpTo(MergeBlocks, MaxBlocks)

\* one call of extract_blocks(file_path, extract_content, keywords)
ExtractBlocks ==
    /\ pc = "extract"
    /\ raw_blocks' = raw_blocks_of(splitlines(extract_content),
                                   _find_keyword_matches(extract_content, keywords))
    /\ merged_blocks' = _merge_blocks(raw_blocks')
    /\ code_blocks' = code_blocks_of(file_path, splitlines(extract_content),
                                     merged_blocks')
    /\ pc' = "extracted"
    /\ UNCHANGED <<disk, dry_run, auto_approve, n_resp, file_path, all_changes,
                   ci, applied_count, reads, writes, history, file_lines,
                   target_content, match_result, indent_vars, extract_content,
                   keywords>>

\* one call of _merge_blocks(raw_blocks)
MergeBlocksOnce ==
    /\ pc = "merge"
    /\ merged_blocks' = _merge_blocks(raw_blocks)
    /\ pc' = "merged"
    /\ UNCHANGED <<disk, dry_run, auto_approve, n_resp, file_path, all_changes,
                   ci, applied_count, reads, writes, history, file_lines,
                   target_content, match_result, indent_vars, extract_content,
                   keywords,
                   raw_blocks, code_blocks>>

\* the ranges of a merge as blocks, each with its first keyword
as_blocks(merged) ==
    [b \in DOMAIN merged |-> <<merged[b][1], merged[b][2], merged[b][3][1]>>]

\* _merge_blocks called again on what the last call returned
MergeAgain ==
    /\ pc \in {"extracted", "merged"}
    /\ merged_blocks' = _merge_blocks(as_blocks(merged_blocks))
    /\ pc' = "remerged"
    /\ UNCHANGED <<disk, dry_run, auto_approve, n_resp, file_path, all_changes,
                   ci, applied_count, reads, writes, history, file_lines,
                   target_content, match_result, indent_vars, extract_content,
                   keywords,
                   raw_blocks, code_blocks>>

NextExtract == ExtractBlocks \/ MergeBlocksOnce \/ MergeAgain

SpecExtract == InitExtract /\ [][NextExtract]_vars

----------------------------------------------------------------------------
(* preserve_indentation alone on bounded texts and original lines          *)

MaxOriginalLines == 2  \* lines of the original_lines of an update

\* new_content: blank, one line, lines with and without indentation and
\* terminator, blank lines between and after them
NewContents ==
    {<<>>, <<" ">>, cc, indent2 \o cc, cc \o <<" ">>, cc \o <<NL>>,
     <<NL>> \o cc, cc \o <<NL>> \o indent4 \o zz,
     indent2 \o cc \o <<NL, NL>> \o zz \o <<NL>>,
     cc \o <<NL, " ", NL>>, <<"\t">> \o cc \o <<NL>> \o zz \o <<NL, NL>>}

\* base_indentation of an insert
BaseIndentations == {<<>>, indent2, <<"\t">>}

\* lines of a file, the last one with or without its terminator
OriginalLines ==
    {Append(aa, NL), Append(indent2 \o aa, NL), <<NL>>, <<" ", NL>>,
     indent4 \o aa, <<"\t", " ", " ">> \o Append(aa, NL)}

\* the lines of a file: every line but the last has its terminator
OriginalFiles ==
    {lines \in SeqsUpTo(OriginalLines, MaxOriginalLines) :
        \A i \in 1..(Len(lines) - 1) : endswith_nl(lines[i])}

IndentCall(new_content, base_indentation, original_lines, start_idx, end_idx) ==
    [new_content      |-> new_content,
     base_indentation |-> base_indentation,
     original_lines   |-> original_lines,
     start_idx        |-> start_idx,
     end_idx          |-> end_idx]

\* the calls of ChangeWriter: an insert gives base_indentation (line 136), an
\* update gives the file's lines and a range inside them (lines 182, 214)
IndentCalls ==
    {IndentCall(new_content, base_indentation, NoLines, 0, 0) :
        new_content \in NewContents, base_indentation \in BaseIndentations}
    \cup
    UNION {{IndentCall(new_content, None, original_lines, start_idx, end_idx) :
               new_content \in NewContents,
               start_idx \in 0..(Len(original_lines) - 1),
               end_idx \in 1..Len(original_lines)} :
           original_lines \in OriginalFiles}

InitIndent ==
    /\ NoRun
    /\ NoExtraction
    /\ pc = "indent"
    /\ indent_call \in {c \in IndentCalls : c.start_idx < c.end_idx \/ c.original_lines = NoLines}
    /\ result_lines = <<>>

\* one call of preserve_indentation
PreserveIndentation ==
    /\ pc = "indent"
    /\ result_lines' = preserve_indentation(indent_call.new_content,
                                            indent_call.base_indentation,
                                            indent_call.original_lines,
                                            indent_call.start_idx,
                                            indent_call.end_idx)
    /\ pc' = "indented"
    /\ UNCHANGED <<disk, dry_run, auto_approve, n_resp, file_path, all_changes,
                   ci, applied_count, reads, writes, history, file_lines,
                   target_content, match_result, extractor_vars, indent_call>>

NextIndent == PreserveIndentation

SpecIndent == InitIndent /\ [][NextIndent]_vars

----------------------------------------------------------------------------
(* One pass of _process_file_responses over edits of disjoint line ranges  *)

MaxPassLines == 3     \* lines of the file of such a pass
MaxPassChanges == 3   \* changes of such a pass

PassLines == {aa, indent2 \o bb, blank}

PassAfter == {cc, indent2 \o cc \o <<NL>> \o zz}

\* the edits of a file that state a range of its lines, an update and a delete
\* with the text of that range as `before`
RangeEdits(lines) ==
    {Change(type, "f1", a, b, join(<<>>, Slice(lines, a - 1, b)), after) :
        type \in {"update"}, a \in 1..Len(lines), b \in 1..Len(lines),
        after \in PassAfter}
    \cup
    {Change("delete", "f1", a, b, join(<<>>, Slice(lines, a - 1, b)), <<>>) :
        a \in 1..Len(lines), b \in 1..Len(lines)}
    \cup
    {Change("insert", "f1", a, a, <<>>, zz) : a \in 1..Len(lines)}

\* the line ranges of the changes are in order and pairwise disjoint
DisjointRanges(changes) ==
    /\ \A i \in DOMAIN changes :
          changes[i].location.start_line <= changes[i].location.end_line
    /\ \A i, j \in DOMAIN changes :
          i # j => \/ changes[i].location.end_line < changes[j].location.start_line
                   \/ changes[j].location.end_line < changes[i].location.start_line

\* the lists of changes of a response for a file of these lines
DisjointEdits(lines) ==
    {changes \in SeqsUpTo(RangeEdits(lines), MaxPassChanges) :
        changes # <<>> /\ DisjointRanges(changes)}

\* _process_file_responses lines 36-57 done: the changes of the response
\* sorted, _apply_all_changes_batch about to apply the first
PassBegun(content, changes) ==
    /\ disk = [path \in Files |-> IF path = "f1" THEN content ELSE Text(<<bb>>)]
    /\ dry_run = FALSE
    /\ auto_approve = TRUE
    /\ pc = "apply"
    /\ n_resp = 1
    /\ file_path = "f1"
    /\ all_changes = sorted_by_start_line_desc(changes)
    /\ ci = 1
    /\ applied_count = 0
    /\ reads = 0
    /\ writes = 0
    /\ history = <<>>
    /\ Idle

InitPass ==
    \E content \in Contents(PassLines, 1, MaxPassLines) :
        \E changes \in DisjointEdits(splitlines_keepends(content)) :
            PassBegun(content, changes)

NextPass == ApplyBatch \/ EndFile

SpecPass == InitPass /\ [][NextPass]_vars

----------------------------------------------------------------------------
(* Properties                                                              *)

LinesOf(content) == splitlines_keepends(content)

\* a line without its line ending
LineText(line) == rstrip_chars(line, {"\n", "\r"})

\* the leading whitespace of a line
Indentation(line) == Slice(LineText(line), 0, indent_width(LineText(line)))

\* the history entries of calls of _apply_single_change
Attempts == {i \in DOMAIN history : history[i].attempted}

Typed(h) == h.change.change_type \in {"insert", "update", "delete"}

\* start_line < 1 or end_line > the file's line count
OutOfBounds(h) ==
    \/ h.change.location.start_line < 1
    \/ h.change.location.end_line > Len(LinesOf(h.pre))

\* reported as failed, the file as it was
Rejected(h) == ~h.success /\ h.post = h.pre

\* the file after lines[a:b] was replaced by the change's `after`
Rewritten(h, a, b) ==
    _write_file(rewrite(LinesOf(h.pre), h.change, a, b))

AppliedAt(h, found) ==
    IF found = None THEN Rejected(h)
    ELSE h.success /\ h.post = Rewritten(h, found[1], found[2])

\* C1 as stated: every insert, update or delete whose start_line < 1 or
\* end_line > line count is reported as failed and leaves the file as it was.
C1_Original ==
    \A i \in Attempts :
        (Typed(history[i]) /\ OutOfBounds(history[i])) => Rejected(history[i])

\* C1 amended: an out-of-bounds insert is rejected and the file is left as it
\* was; an out-of-bounds update or delete is rejected, the file left as it
\* was, exactly when find_content_match finds no range for `before`, and is
\* otherwise applied to the range the matcher found.
C1_Amended ==
    \A i \in Attempts :
        (Typed(history[i]) /\ OutOfBounds(history[i])) =>
            IF history[i].change.change_type = "insert"
            THEN Rejected(history[i])
            ELSE AppliedAt(history[i],
                           find_content_match(LinesOf(history[i].pre),
                                              history[i].change.before))

C1_Witness ==
    \E i \in Attempts :
        /\ history[i].change.change_type = "update"
        /\ OutOfBounds(history[i])
        /\ history[i].success
        /\ history[i].post # history[i].pre

\* lines start_line..end_line equal `before` (as line 176-179 compares them)
LiteralMatch(h) ==
    /\ _validate_change_bounds(h.change, Len(LinesOf(h.pre)))
    /\ rstrip_chars(join(<<>>, Slice(LinesOf(h.pre),
                                     h.change.location.start_line - 1,
                                     h.change.location.end_line)), {NL})
       = rstrip_chars(h.change.before, {NL})

\* lines[a:b] carry the text of `before`, whitespace aside
RangeCarries(lines, a, b, before) ==
    remove_whitespace(join(<<>>, Slice(lines, a, b))) = remove_whitespace(before)

\* the non-blank lines of `before` equal, whitespace aside, the lines that
\* start at index a
WindowMatches(lines, a, target_lines) ==
    /\ target_lines # <<>>
    /\ \A k \in DOMAIN target_lines :
        /\ a + k <= Len(lines)
        /\ remove_whitespace(lines[a + k]) = remove_whitespace(target_lines[k])

\* at least max(0.7 * N, 2) of the N key patterns of `before` occur in the
\* window that starts at index a
WindowShares(lines, a, target_lines, key_patterns, score) ==
    /\ a + Len(target_lines) <= Len(lines)
    /\ score >= 2
    /\ 10 * score >= 7 * Cardinality(key_patterns)

SomeRange(h, P(_, _)) ==
    \E a \in 0..Len(LinesOf(h.pre)), b \in 0..Len(LinesOf(h.pre)) :
        a < b /\ h.post = Rewritten(h, a, b) /\ P(a, b)

RECURSIVE TrailingBlank(_)
TrailingBlank(lines) ==
    IF lines # <<>> /\ strip(lines[Len(lines)]) = <<>>
    THEN 1 + TrailingBlank(SubSeq(lines, 1, Len(lines) - 1))
    ELSE 0

\* file_lines[a:b] is the first range of the file with that very text
FirstVerbatim(a, b) ==
    /\ a < b
    /\ target_content = join(<<>>, Slice(file_lines, a, b))
    /\ \A c \in 0..(a - 1), d \in 0..Len(file_lines) :
           target_content # join(<<>>, Slice(file_lines, c, d))

\* C3 as stated: when target_text is the verbatim, non-blank text of
\* file_lines[a:b], find_content_match returns (a, b), its end index moved
\* past b by no more than the trailing blank lines of the target.  Read for
\* the first range that carries the text, since one call returns one range.
C3_Original ==
    pc = "matched" =>
        \A a \in 0..Len(file_lines), b \in 0..Len(file_lines) :
            (FirstVerbatim(a, b) /\ strip(target_content) # <<>>) =>
                /\ match_result # None
                /\ match_result[1] = a
                /\ match_result[2] >= b
                /\ match_result[2] <= b + TrailingBlank(splitlines(target_content))

\* C4 as stated: of two changes of one run that target the same file, the
\* one with the greater start_line is attempted first.
C4_Original ==
    \A i \in Attempts, j \in Attempts :
        ( /\ history[i].file_path = history[j].file_path
          /\ history[i].change.location.start_line
                > history[j].change.location.start_line ) => i < j

\* the attempts of the pass over the current response
PassAttempts == {i \in Attempts : history[i].resp = n_resp}

C6_Original ==
    \A i \in Attempts :
        history[i].change.change_type = "insert" =>
            IF /\ 1 <= history[i].change.location.start_line
               /\ history[i].change.location.start_line
                     <= Len(LinesOf(history[i].pre)) + 1
            THEN history[i].success
            ELSE Rejected(history[i])

Ranged(h) == h.change.change_type \in {"update", "delete"}

Overlap(g, h) ==
    /\ g.change.location.start_line <= h.change.location.end_line
    /\ h.change.location.start_line <= g.change.location.end_line

\* C7 as stated: of two changes of one pass whose line ranges overlap, at
\* most one is applied.
C7_Original ==
    \A i \in Attempts, j \in Attempts :
        ( /\ i < j
          /\ history[i].resp = history[j].resp
          /\ Ranged(history[i]) /\ Ranged(history[j])
          /\ Overlap(history[i], history[j]) ) =>
            ~(history[i].success /\ history[j].success)


SingleLine(text) == text # <<>> /\ ~contains(text, <<NL>>)

\* an update of the one in-bounds line k whose `before` is line k's text
\* without its leading indentation and whose `after` is a single line
UpdatesLine(h, k) ==
    /\ h.change.change_type = "update"
    /\ h.change.location.start_line = k
    /\ h.change.location.end_line = k
    /\ k \in DOMAIN LinesOf(h.pre)
    /\ h.change.before = lstrip(LineText(LinesOf(h.pre)[k]))
    /\ SingleLine(h.change.after)

\* line k replaced by new_line, every other line as it was
OnlyLine(h, k, new_line) ==
    LinesOf(h.post) = [LinesOf(h.pre) EXCEPT ![k] = Append(new_line, NL)]

\* C8 as stated: after such an update line k is its original indentation
\* followed by `after`, and every other line is unchanged.
C8_Original ==
    \A i \in Attempts : \A k \in 1..MaxInsertLines :
        UpdatesLine(history[i], k) =>
            /\ history[i].success
            /\ OnlyLine(history[i], k,
                        Indentation(LinesOf(history[i].pre)[k]) \o history[i].change.after)

\* entry i is an insert applied at or above the lines start_line..end_line
\* of the update tried next in the same pass, lines that held exactly
\* `before` when the insert was applied and no longer do
MovedByInsert(i) ==
    /\ i + 1 \in Attempts
    /\ history[i].resp = history[i + 1].resp
    /\ history[i].change.change_type = "insert"
    /\ history[i].success
    /\ Len(LinesOf(history[i].post)) > Len(LinesOf(history[i].pre))
    /\ history[i + 1].change.change_type = "update"
    /\ history[i].change.location.start_line
          <= history[i + 1].change.location.start_line
    /\ LiteralMatch([history[i + 1] EXCEPT !.pre = history[i].pre])
    /\ ~LiteralMatch(history[i + 1])

\* C9 as stated: an update whose text an insert applied earlier in the pass
\* moved down by n lines is applied to exactly the lines the text moved to,
\* all other lines left as they were.
C9_Original ==
    \A i \in Attempts :
        MovedByInsert(i) =>
            LET n == Len(LinesOf(history[i].post)) - Len(LinesOf(history[i].pre))
            IN  /\ history[i + 1].success
                /\ history[i + 1].post =
                       Rewritten(history[i + 1],
                                 history[i + 1].change.location.start_line - 1 + n,
                                 history[i + 1].change.location.end_line + n)

\* the non-blank lines among lines k-2..k+2, the lines line 145 looks at
Nearby(lines, k) ==
    {m \in (k - 2)..(k + 2) : m \in DOMAIN lines /\ strip(lines[m]) # <<>>}

Width(line) == Len(Indentation(line))

Votes(lines, k, n) == Cardinality({m \in Nearby(lines, k) : Width(lines[m]) = n})

FirstOfWidth(lines, k, n) ==
    CHOOSE m \in Nearby(lines, k) :
        /\ Width(lines[m]) = n
        /\ \A j \in Nearby(lines, k) : j < m => Width(lines[j]) # n

\* an insert at line k, its location in bounds, of one unindented line,
\* lines k-1 and k+1 both indented with 4 spaces
InsertsBetween(h, k) ==
    /\ h.change.change_type = "insert"
    /\ h.change.location.start_line = k
    /\ _validate_change_bounds(h.change, Len(LinesOf(h.pre)))
    /\ k - 1 \in DOMAIN LinesOf(h.pre)
    /\ k + 1 \in DOMAIN LinesOf(h.pre)
    /\ Indentation(LinesOf(h.pre)[k - 1]) = indent4
    /\ Indentation(LinesOf(h.pre)[k + 1]) = indent4
    /\ SingleLine(h.change.after)
    /\ strip(h.change.after) = h.change.after

\* the new line is line k, the old lines k and later one further down
InsertedAt(h, k, new_line) ==
    LinesOf(h.post) = Slice(LinesOf(h.pre), 0, k - 1) \o <<Append(new_line, NL)>>
                      \o SubSeq(LinesOf(h.pre), k, Len(LinesOf(h.pre)))

\* C10 as stated: such an insert puts `after`, indented with 4 spaces, in as
\* the new line k, moves the old lines k and later down by one and changes
\* no line.
C10_Original ==
    \A i \in Attempts : \A k \in 1..MaxInsertLines :
        InsertsBetween(history[i], k) =>
            /\ history[i].success
            /\ InsertedAt(history[i], k, indent4 \o history[i].change.after)

\* among the non-blank lines k-2..k+2 no indentation width occurs more often
\* than 4, a width that occurs as often occurs first after a 4-wide line,
\* and the first 4-wide line is indented with spaces
FourSpacesWin(lines, k) ==
    /\ \A m \in Nearby(lines, k) :
          Width(lines[m]) # 4 =>
              \/ Votes(lines, k, Width(lines[m])) < Votes(lines, k, 4)
              \/ /\ Votes(lines, k, Width(lines[m])) = Votes(lines, k, 4)
                 /\ FirstOfWidth(lines, k, 4) < m
    /\ Indentation(lines[FirstOfWidth(lines, k, 4)]) = indent4

\* C10 amended: the same holds when in addition 4 spaces win the vote over
\* the non-blank lines k-2..k+2: no other indentation width occurs there
\* more often than 4, none that occurs as often occurs before the first
\* 4-wide line, and that first 4-wide line is indented with spaces.
C10_Amended ==
    \A i \in Attempts : \A k \in 1..MaxInsertLines :
        ( /\ InsertsBetween(history[i], k)
          /\ FourSpacesWin(LinesOf(history[i].pre), k) ) =>
            /\ history[i].success
            /\ InsertedAt(history[i], k, indent4 \o history[i].change.after)

C10_Witness ==
    \E i \in Attempts : \E k \in 3..MaxInsertLines :
        /\ InsertsBetween(history[i], k)
        /\ FourSpacesWin(LinesOf(history[i].pre), k)
        /\ Width(LinesOf(history[i].pre)[k - 2]) = 0
        /\ strip(LinesOf(history[i].pre)[k - 2]) # <<>>
        /\ history[i].success
        /\ InsertedAt(history[i], k, indent4 \o history[i].change.after)

\* a delete of in-bounds lines start_line..end_line that hold `before`
DeletesItsLines(h) == h.change.change_type = "delete" /\ LiteralMatch(h)

\* C11: a delete of in-bounds lines s..e whose `before` is the text of those
\* lines is applied and removes exactly lines s..e: the file is e - s + 1
\* lines shorter and every other line keeps its content and its order.
C11_DeleteFrame ==
    \A i \in Attempts :
        DeletesItsLines(history[i]) =>
            /\ history[i].success
            /\ LinesOf(history[i].post)
                  = Slice(LinesOf(history[i].pre), 0,
                          history[i].change.location.start_line - 1)
                    \o SubSeq(LinesOf(history[i].pre),
                              history[i].change.location.end_line + 1,
                              Len(LinesOf(history[i].pre)))
            /\ Len(LinesOf(history[i].post))
                  = Len(LinesOf(history[i].pre))
                    - (history[i].change.location.end_line
                       - history[i].change.location.start_line + 1)

C11_Witness ==
    \E i \in Attempts :
        /\ DeletesItsLines(history[i])
        /\ history[i].change.location.start_line = 2
        /\ history[i].change.location.end_line = 3
        /\ strip(history[i].change.before) # <<>>
        /\ history[i].success
        /\ Len(LinesOf(history[i].post)) = 1

\* C12: with dry_run set no step of process_responses writes a file: every
\* file keeps its content, no write is counted and no change is attempted,
\* whatever auto_approve is.
C12_DryRunFrame ==
    [][dry_run => (disk' = disk /\ writes' = 0 /\ history' = <<>>)]_vars

C12_Witness ==
    /\ dry_run
    /\ pc = "done"
    /\ n_resp >= 2
    /\ all_changes # <<>>
    /\ writes = 0

\* the history entry of the k-th change of the pass under way
PassEntry(k) == history[Len(history) - (ci - 1) + k]

\* C13: in a pass every change of the list is attempted, whatever happened
\* to the changes before it: when the loop stands at change ci, the ci - 1
\* changes before it have each been dealt with in the order of the list,
\* in batch mode each of them attempted, failed ones included, and the pass
\* is over only when the last change of the list has been dealt with.
C13_AllAttempted ==
    (~dry_run /\ all_changes # <<>>) =>
        /\ ci - 1 <= Len(history)
        /\ ci <= Len(all_changes) + 1
        /\ \A k \in 1..(ci - 1) :
              /\ PassEntry(k).resp = PassEntry(1).resp
              /\ PassEntry(k).change = all_changes[k]
              /\ auto_approve => PassEntry(k).attempted
        /\ pc \in {"loop", "done"} => ci = Len(all_changes) + 1

\* a failed change, one that raised an exception, followed by an attempt
C13_Witness ==
    /\ pc = "apply"
    /\ auto_approve
    /\ ci = 3
    /\ PassEntry(1).change.change_type = "missing"
    /\ ~PassEntry(1).success
    /\ PassEntry(2).attempted
    /\ PassEntry(2).success

\* the entries of changes the user declined
Declined == {i \in DOMAIN history : ~history[i].attempted}

\* what the file holds right after entry i: the next entry of the same file
\* finds it, or it is on disk
HeldAfter(i) ==
    IF \E j \in (i + 1)..Len(history) : history[j].file_path = history[i].file_path
    THEN history[CHOOSE j \in (i + 1)..Len(history) :
                    /\ history[j].file_path = history[i].file_path
                    /\ \A m \in (i + 1)..(j - 1) :
                          history[m].file_path # history[i].file_path].pre
    ELSE disk[history[i].file_path]

\* C14: in interactive mode a change is attempted only after the user
\* accepted it: the file is read once per accepted change and not for a
\* declined one; a declined change is never applied and leaves the file as
\* it was, and the pass goes on with the next change of the list.
C14_Interactive ==
    /\ \A i \in Declined :
          /\ ~auto_approve /\ ~dry_run
          /\ Rejected(history[i])
          /\ HeldAfter(i) = history[i].pre
    /\ (pc = "apply" /\ ~auto_approve) =>
          /\ reads = Cardinality(PassAttempts)
          /\ \A k \in 1..(ci - 1) : PassEntry(k).change = all_changes[k]

\* a declined change followed by an accepted one that is applied
C14_Witness ==
    /\ pc = "apply"
    /\ ~auto_approve
    /\ ci = 3
    /\ ~PassEntry(1).attempted
    /\ PassEntry(2).attempted
    /\ PassEntry(2).success
    /\ PassEntry(2).post # PassEntry(2).pre
    /\ PassEntry(1).change # PassEntry(2).change

\* str.split(): the whitespace-separated tokens of a line
RECURSIVE Tokens(_)
Tokens(line) ==
    IF lstrip(line) = <<>> THEN <<>>
    ELSE LET rest == lstrip(line)
             n    == span_not(rest, Whitespace)
         IN  <<SubSeq(rest, 1, n)>> \o Tokens(SubSeq(rest, n + 1, Len(rest)))

NonBlankLines(text) == SelectSeq(splitlines(text), LAMBDA l : strip(l) # <<>>)

\* the file lines from index a on carry, line for line, the tokens of the
\* non-blank lines of the target
CarriesTokens(a) ==
    /\ NonBlankLines(target_content) # <<>>
    /\ a + Len(NonBlankLines(target_content)) <= Len(file_lines)
    /\ \A k \in DOMAIN NonBlankLines(target_content) :
          Tokens(file_lines[a + k]) = Tokens(NonBlankLines(target_content)[k])

\* C15: find_content_match returns a match whenever some window of
\* consecutive file lines carries, line for line, the tokens of the
\* non-blank lines of the target, whatever the indentation, the trailing
\* whitespace and the spacing between tokens; the match starts no later
\* than the first such window.
C15_WhitespaceTolerance ==
    pc = "matched" =>
        \A a \in 0..Len(file_lines) :
            CarriesTokens(a) => (match_result # None /\ match_result[1] <= a)

\* a window that carries the tokens with other whitespace than the target
C15_Witness ==
    /\ pc = "matched"
    /\ match_result # None
    /\ CarriesTokens(match_result[1])
    /\ Len(NonBlankLines(target_content)) = 2
    /\ \A k \in DOMAIN NonBlankLines(target_content) :
          LineText(file_lines[match_result[1] + k])
             # NonBlankLines(target_content)[k]

\* the lines of the content given to extract_blocks
ContentLines == splitlines(extract_content)

\* the text of lines a..b of the content, a newline between two lines
LiteralSlice(a, b) ==
    IF a = b THEN ContentLines[a]
    ELSE join(<<NL>>, SubSeq(ContentLines, a, b))

\* C16: every block extract_blocks returns has
\* 1 <= start_line <= end_line <= number of lines of the content, and its
\* content is the lines start_line..end_line of the content joined by newlines
C16_BlockBounds ==
    pc = "extracted" =>
        \A b \in DOMAIN code_blocks :
            /\ 1 <= code_blocks[b].start_line
            /\ code_blocks[b].start_line <= code_blocks[b].end_line
            /\ code_blocks[b].end_line <= Len(ContentLines)
            /\ code_blocks[b].content =
                   LiteralSlice(code_blocks[b].start_line, code_blocks[b].end_line)

\* a block found by brace matching, below the first line, merged from the
\* matches of two keywords
C16_Witness ==
    /\ pc = "extracted"
    /\ \E b \in DOMAIN code_blocks :
          /\ 1 < code_blocks[b].start_line
          /\ code_blocks[b].start_line < code_blocks[b].end_line
          /\ Len(code_blocks[b].matched_keywords) = 2
    /\ \E r \in DOMAIN raw_blocks : raw_blocks[r][1] < raw_blocks[r][2]

\* the line ranges of a list of blocks, in order
Ranges(blocks) == [b \in DOMAIN blocks |-> <<blocks[b][1], blocks[b][2]>>]

\* C17: merging is idempotent: merging the ranges a merge produced yields the
\* same ranges, as many, with the same start and end lines, in the same order
C17_MergeIdempotent ==
    pc = "remerged" => Ranges(merged_blocks) = Ranges(_merge_blocks(raw_blocks))

\* a merge that joined blocks and kept two ranges apart, merged again
C17_Witness ==
    /\ pc = "remerged"
    /\ Len(merged_blocks) >= 2
    /\ Len(raw_blocks) > Len(merged_blocks)

\* a _write_file of the pass over the current response failed
WriteFailedInPass == writes > applied_count

\* the file as the pass over the current response found it
BeforePass == PassEntry(1).pre

\* C18 as stated: if a write of the file fails, none of the changes of the
\* pass reach the disk; after the pass the file holds all the mutations of the
\* pass or none of them, never only the changes applied before the failing write.
C18_Original ==
    (pc = "apply" /\ ~dry_run /\ ci > Len(all_changes) /\ WriteFailedInPass) =>
        disk[file_path] = BeforePass

\* C19: every line preserve_indentation returns, for an insert and for an
\* update and whatever the new text, ends with a newline and holds no other
C19_OneTerminator ==
    pc = "indented" =>
        \A i \in DOMAIN result_lines :
            /\ endswith_nl(result_lines[i])
            /\ count(result_lines[i], NL) = 1

\* an update by several lines, one of them blank, of original lines of which
\* the last has no terminator
C19_Witness ==
    /\ pc = "indented"
    /\ indent_call.base_indentation = None
    /\ indent_call.original_lines # NoLines
    /\ ~endswith_nl(indent_call.original_lines[Len(indent_call.original_lines)])
    /\ ~endswith_nl(indent_call.new_content)
    /\ Len(result_lines) >= 2
    /\ \E i \in DOMAIN result_lines : strip(result_lines[i]) = <<>>

\* C20 as stated: every change handed to the applicator carries a change_type
\* that is insert, update or delete, and the dispatch of _apply_single_change
\* resolves it by one of the three procedures instead of failing it.
C20_Original ==
    \A i \in Attempts :
        history[i].change.change_type \in {"insert", "update", "delete"}

\* the lines a change puts into the file, without indentation and terminator
NewText(after) ==
    IF strip(after) = <<>> THEN <<>>
    ELSE [k \in DOMAIN splitlines(after) |-> strip(splitlines(after)[k])]

\* the changes of the list that state line i as their first line
StartingAt(changes, i) ==
    SelectSeq(changes, LAMBDA c : c.location.start_line = i)

\* line i lies in the range of an update or a delete of the list
Replaced(changes, i) ==
    \E k \in DOMAIN changes :
        /\ changes[k].change_type \in {"update", "delete"}
        /\ changes[k].location.start_line <= i
        /\ i <= changes[k].location.end_line

\* what the edits make of line i of the original file
EditedLine(lines, changes, i) ==
    (IF StartingAt(changes, i) # <<>> /\ StartingAt(changes, i)[1].change_type # "delete"
     THEN NewText(StartingAt(changes, i)[1].after) ELSE <<>>)
    \o (IF Replaced(changes, i) THEN <<>> ELSE <<strip(lines[i])>>)

\* the original lines with every edit applied at its stated lines
RECURSIVE EditedFrom(_, _, _)
EditedFrom(lines, changes, i) ==
    IF i > Len(lines) THEN <<>>
    ELSE EditedLine(lines, changes, i) \o EditedFrom(lines, changes, i + 1)

\* the lines of a content without indentation and terminator
StrippedLines(content) ==
    [k \in DOMAIN LinesOf(content) |-> strip(LinesOf(content)[k])]

\* C21: in a pass over changes of distinct start lines and pairwise disjoint
\* ranges, each update and delete with the text of its lines at the start of
\* the pass as `before`, every update and delete is applied by the line-number
\* attempt at its stated lines, none by content matching, and the final file
\* is the original file with every edit applied at its stated position.
C21_StableRanges ==
    /\ \A i \in DOMAIN history :
          /\ history[i].success
          /\ history[i].change.change_type \in {"update", "delete"} =>
                 _try_line_number_approach(LinesOf(history[i].pre),
                                           history[i].change).success
    /\ (history # <<>> /\ ci > Len(all_changes)) =>
          StrippedLines(disk[file_path]) =
              EditedFrom(LinesOf(history[1].pre), all_changes, 1)

\* a pass of three edits, a delete and an insert among them, that is over
C21_Witness ==
    /\ pc = "loop"
    /\ Len(history) = 3
    /\ \E i \in DOMAIN history : history[i].change.change_type = "delete"
    /\ \E i \in DOMAIN history : history[i].change.change_type = "insert"
    /\ \E i \in DOMAIN history : history[i].change.change_type = "update"
    /\ disk[file_path] # history[1].pre

\* the file lines and the non-blank target lines as find_content_match
\* compares them
NormalizedFile == [i \in DOMAIN file_lines |-> _normalize_line(file_lines[i])]

\* the start indices of the windows in which every pattern line matches
ExactWindows(target_lines) ==
    {w \in 0..(Len(file_lines) - Len(target_lines)) :
        _lines_match_at_position(NormalizedFile, target_lines, w)}

\* the index pair the claim gives for the exact match of lowest start index
TrailingRule(windows, n) ==
    <<CHOOSE w \in windows : \A v \in windows : w <= v,
      Min((CHOOSE w \in windows : \A v \in windows : w <= v) + n
            + TrailingBlank(splitlines(target_content)),
          Len(file_lines))>>

EndsByTrailingRule(target_lines) ==
    ExactWindows(target_lines) # {} =>
        match_result = TrailingRule(ExactWindows(target_lines), Len(target_lines))

\* C22 as stated: for an exact match that starts at index s with n non-blank
\* pattern lines, find_content_match returns the end index
\* min(s + n + t, len(file_lines)), t the number of trailing blank lines of
\* the target; leading and interior blank lines are not counted.
C22_Original ==
    (pc = "matched" /\ strip(target_content) # <<>>) =>
        EndsByTrailingRule(target_lines_of(target_content))

\* the least of a set of indices
Lowest(windows) == CHOOSE w \in windows : \A v \in windows : w <= v

\* the result is the exact window of lowest index if there is one, and the
\* result of the fuzzy pass if there is none
ExactFirst(target_lines, windows) ==
    IF windows # {}
    THEN match_result # None /\ match_result[1] = Lowest(windows)
    ELSE match_result = _find_fuzzy_match(NormalizedFile, target_lines)

\* C23: the exact pass returns the lowest-index window in which every pattern
\* line matches its file line, and the fuzzy pass is run only when no window
\* of the file matches exactly
C23_FirstExactWindow ==
    (pc = "matched" /\ strip(target_content) # <<>>) =>
        ExactFirst(target_lines_of(target_content),
                   ExactWindows(target_lines_of(target_content)))

\* two windows match exactly, the first of them below the top of the file
C23_Witness ==
    /\ pc = "matched"
    /\ strip(target_content) # <<>>
    /\ Cardinality(ExactWindows(target_lines_of(target_content))) >= 2
    /\ match_result # None
    /\ match_result[1] >= 1

\* the key-pattern score of every window of the file
Scores(target_lines, key_patterns) ==
    [w \in 0..(Len(file_lines) - Len(target_lines)) |->
        fuzzy_score(NormalizedFile, Len(target_lines), key_patterns, w)]

\* the score reaches max(0.7 * N, 2)
Reaches(score, n_patterns) == score >= 2 /\ 10 * score >= 7 * n_patterns

\* the result is the lowest window of the highest score if that score reaches
\* the threshold, and no match if no score does
HighestScoreWins(score, n_patterns, n_target) ==
    IF \A w \in DOMAIN score : ~Reaches(score[w], n_patterns)
    THEN match_result = None
    ELSE /\ match_result # None
         /\ match_result[1] \in DOMAIN score
         /\ match_result[2] = match_result[1] + n_target
         /\ \A w \in DOMAIN score : score[w] <= score[match_result[1]]
         /\ \A w \in DOMAIN score :
                w < match_result[1] => score[w] < score[match_result[1]]

FuzzyRule(target_lines, key_patterns) ==
    (ExactWindows(target_lines) = {} /\ key_patterns # {}) =>
        HighestScoreWins(Scores(target_lines, key_patterns),
                         Cardinality(key_patterns), Len(target_lines))

\* C24: when the exact pass finds nothing, find_content_match with N key
\* patterns returns the window of the highest key-pattern score if that score
\* is at least max(0.7 * N, 2), the lowest-index one among windows of equal
\* highest score, and no match when every window scores below max(0.7 * N, 2)
C24_FuzzyThreshold ==
    (pc = "matched" /\ strip(target_content) # <<>>) =>
        FuzzyRule(target_lines_of(target_content),
                  _extract_key_patterns(target_lines_of(target_content)))

\* a window above the threshold is passed over for a later one that scores more
PassedOver(score, n_patterns) ==
    \E w \in DOMAIN score :
        /\ w < match_result[1]
        /\ Reaches(score[w], n_patterns)
        /\ score[w] < score[match_result[1]]

PassedOverIn(target_lines, key_patterns) ==
    /\ ExactWindows(target_lines) = {}
    /\ PassedOver(Scores(target_lines, key_patterns), Cardinality(key_patterns))

C24_Witness ==
    /\ pc = "matched"
    /\ match_result # None
    /\ PassedOverIn(target_lines_of(target_content),
                    _extract_key_patterns(target_lines_of(target_content)))

\* block m of the merge covers the candidate block r
Covers(m, r) == merged_blocks[m][1] <= r[1] /\ r[2] <= merged_blocks[m][2]

\* the candidate blocks overlap or the later one starts within 2 lines of the
\* end of the earlier one
Near(r, q) == r[1] <= q[1] /\ q[1] <= r[2] + 2

\* C25: the blocks are returned in strictly ascending start_line order, each
\* starting more than 2 lines after the end of the block before it; two
\* candidate blocks that overlap or lie within 2 lines of each other are
\* merged into one block that covers the union of their line ranges
C25_MergedApart ==
    pc \in {"extracted", "merged"} =>
        /\ \A m \in 1..(Len(merged_blocks) - 1) :
              merged_blocks[m + 1][1] > merged_blocks[m][2] + 2
        /\ \A i, j \in DOMAIN raw_blocks :
              Near(raw_blocks[i], raw_blocks[j]) =>
                  \E m \in DOMAIN merged_blocks :
                      Covers(m, raw_blocks[i]) /\ Covers(m, raw_blocks[j])
        /\ \A m \in DOMAIN merged_blocks :
              /\ \E i \in DOMAIN raw_blocks : raw_blocks[i][1] = merged_blocks[m][1]
              /\ \E i \in DOMAIN raw_blocks : raw_blocks[i][2] = merged_blocks[m][2]
        /\ pc = "extracted" =>
              /\ Len(code_blocks) = Len(merged_blocks)
              /\ \A m \in DOMAIN merged_blocks :
                    /\ code_blocks[m].start_line = merged_blocks[m][1]
                    /\ code_blocks[m].end_line = merged_blocks[m][2]

\* extract_blocks returns one block merged from two candidates of which the
\* second starts 2 lines after the end of the first
C25_Witness ==
    /\ pc = "extracted"
    /\ Len(code_blocks) = 1
    /\ \E i, j \in DOMAIN raw_blocks :
          /\ raw_blocks[j][1] = raw_blocks[i][2] + 2
          /\ Covers(1, raw_blocks[i]) /\ Covers(1, raw_blocks[j])

\* a line up to its line comment
RECURSIVE BeforeComment(_)
BeforeComment(line) ==
    IF line = <<>> THEN <<>>
    ELSE IF startswith(line, <<"/", "/">>) THEN <<>>
    ELSE <<Head(line)>> \o BeforeComment(Tail(line))

\* the line without its quoted strings and its line comment
CodeOnly(line) == BeforeComment(remove_quoted(remove_quoted(line, "\""), "'"))

\* the end of the block that starts at start_line when only the braces outside
\* strings and comments count
RECURSIVE CodeBraceEnd(_, _, _, _, _)
CodeBraceEnd(lines, i, brace_count, found_opening, start_line) ==
    IF i >= Len(lines) THEN start_line
    ELSE IF /\ found_opening \/ count(CodeOnly(lines[i + 1]), "{") > 0
            /\ brace_count + count(CodeOnly(lines[i + 1]), "{")
                  - count(CodeOnly(lines[i + 1]), "}") = 0
    THEN i + 1
    ELSE CodeBraceEnd(lines, i + 1,
                      brace_count + count(CodeOnly(lines[i + 1]), "{")
                        - count(CodeOnly(lines[i + 1]), "}"),
                      found_opening \/ count(CodeOnly(lines[i + 1]), "{") > 0,
                      start_line)

\* the candidate block of a keyword match when only those braces count
CodeBraceBlock(lines, start_line, match) ==
    block_or_line(start_line, CodeBraceEnd(lines, start_line - 1, 0, FALSE, start_line),
                  match[1], match[2])

CodeBraceBlocks(lines, keyword_matches) ==
    [m \in DOMAIN keyword_matches |->
        CodeBraceBlock(lines, _find_block_start(lines, keyword_matches[m][1]),
                       keyword_matches[m])]

\* C26 as stated: while the block end is searched, a brace inside a quoted
\* string or a line comment never changes the running brace count, on every
\* line, lines with braces outside strings and comments included; the block
\* ends are those of a count of the braces outside strings and comments.
C26_Original ==
    pc = "extracted" =>
        raw_blocks = CodeBraceBlocks(ContentLines,
                                     _find_keyword_matches(extract_content, keywords))

\* how far line m lies from line k, the line the insert is put before
Distance(m, k) == IF m >= k THEN m - k ELSE k - m

\* no indentation width occurs more often than n among the non-blank lines
\* k-2..k+2
MostVotes(lines, k, n) ==
    \A m \in Nearby(lines, k) : Votes(lines, k, Width(lines[m])) <= Votes(lines, k, n)

\* line m has one of the most frequent widths and no line of another such
\* width lies nearer to line k: a line that a scan outward from the insertion
\* point may find first
FoundFirstOutward(lines, k, m) ==
    /\ m \in Nearby(lines, k)
    /\ MostVotes(lines, k, Width(lines[m]))
    /\ \A j \in Nearby(lines, k) :
          MostVotes(lines, k, Width(lines[j])) => Distance(m, k) <= Distance(j, k)

\* an applied insert before line k of one unindented line
InsertsLine(h, k) ==
    /\ h.change.change_type = "insert"
    /\ h.change.location.start_line = k
    /\ h.success
    /\ SingleLine(h.change.after)
    /\ strip(h.change.after) = h.change.after

\* the inserted line carries the indentation of a line found first outward,
\* and none when there is no non-blank line nearby
IndentedOutward(h, k) ==
    IF Nearby(LinesOf(h.pre), k) = {}
    THEN InsertedAt(h, k, h.change.after)
    ELSE \E m \in Nearby(LinesOf(h.pre), k) :
            /\ FoundFirstOutward(LinesOf(h.pre), k, m)
            /\ InsertedAt(h, k, Indentation(LinesOf(h.pre)[m]) \o h.change.after)

\* C27 as stated: the base indentation of an insert is the indentation that
\* occurs most often among the non-blank lines within 2 lines of the insertion
\* point; of indentations equally frequent, that of the qualifying line found
\* first when scanning outward from the insertion point.
C27_Original ==
    \A i \in Attempts : \A k \in 1..MaxInsertLines :
        InsertsLine(history[i], k) => IndentedOutward(history[i], k)

\* the non-blank lines of the original range of the call
OriginalRange ==
    SelectSeq(Slice(indent_call.original_lines, indent_call.start_idx,
                    indent_call.end_idx),
              LAMBDA l : strip(l) # <<>>)

\* the leading whitespace of the lines of least width among them
LeastIndentations(range) ==
    IF range = <<>> THEN {<<>>}
    ELSE {Indentation(range[i]) :
             i \in {j \in DOMAIN range :
                       \A m \in DOMAIN range : Width(range[j]) <= Width(range[m])}}

\* every unindented new line is returned behind the leading whitespace of an
\* original line of least width
CarriesLeastIndentation(new_lines, range) ==
    \A i \in DOMAIN new_lines :
        (indent_width(new_lines[i]) = 0 /\ strip(new_lines[i]) # <<>>) =>
            \E base \in LeastIndentations(range) :
                result_lines[i] \in {base \o strip(new_lines[i]) \o <<NL>>,
                                     base \o new_lines[i] \o <<NL>>}

\* one original line replaced by one new line
OneForOne(new_lines) ==
    indent_call.end_idx - indent_call.start_idx = 1 /\ Len(new_lines) = 1

UpdateIndentation(new_lines) ==
    IF OneForOne(new_lines)
    THEN result_lines =
             <<Indentation(indent_call.original_lines[indent_call.start_idx + 1])
               \o strip(new_lines[1]) \o <<NL>>>>
    ELSE CarriesLeastIndentation(new_lines, OriginalRange)

\* C28 as stated: in update mode the base indentation is the least leading-
\* whitespace width among the non-blank lines of the original range, the
\* leading whitespace of the line of that width reused verbatim, tabs and
\* spaces as they are; one line replaced by one line carries the original
\* line's exact indentation.
C28_Original ==
    ( /\ pc = "indented"
      /\ indent_call.base_indentation = None
      /\ indent_call.original_lines # NoLines
      /\ strip(indent_call.new_content) # <<>> ) =>
        UpdateIndentation(splitlines(indent_call.new_content))

\* the lines of the content that some keyword pattern matches
KeywordHits ==
    {i \in DOMAIN ContentLines : first_keyword(ContentLines[i], keywords) # 0}

\* C29 as stated: every line of the input that matches a keyword pattern lies
\* inside the line range of some block extract_blocks returns.
C29_Original ==
    pc = "extracted" =>
        \A i \in KeywordHits :
            \E b \in DOMAIN code_blocks :
                /\ code_blocks[b].start_line <= i
                /\ i <= code_blocks[b].end_line

\* the attempt left the file as it found it and no write was counted
Untouched(h) ==
    /\ h.post = h.pre
    /\ disk[h.file_path] = h.pre
    /\ writes = 0

\* C30: a change that _apply_single_change reports as failed (insert out of
\* bounds, `before` found neither by line number nor by content matching, a
\* blank `before` that does not match, a change type that is none of insert,
\* update and delete) is followed by no write, and the file holds after the
\* attempt what it held before it.
C30_FailedUntouched ==
    \A i \in Attempts : ~history[i].success => Untouched(history[i])

\* a failed update of a file that has lines, its line numbers in bounds and
\* its `before` not blank
C30_Witness ==
    \E i \in Attempts :
        /\ ~history[i].success
        /\ history[i].change.change_type = "update"
        /\ history[i].pre # <<>>
        /\ strip(history[i].change.before) # <<>>
        /\ _validate_change_bounds(history[i].change, Len(LinesOf(history[i].pre)))

====
